---- MODULE Spec2Model ----
(***************************************************************************)
(* A model of 'reduce', adaptive prefix-assignment symmetry reduction.     *)
(* The reducer (reduce.c) is modelled operation by operation; the graph    *)
(* layer (graph.c) is modelled over edge sets; the canonical labeler that  *)
(* graph.c calls (nauty, not part of the repository) is modelled by its    *)
(* contract: automorphisms, orbits, generators, stabilizer indices and a   *)
(* canonical labeling of a vertex-coloured graph.                          *)
(***************************************************************************)
EXTENDS Integers, Sequences, FiniteSets, TLC

(***************************************************************************)
(* Bounds of the model.                                                    *)
(***************************************************************************)
\* Largest number of points n of the A000088 test graph (A000088-test.pl n).
MaxPoints == 4
\* Number of different prefix orders tried for every A000088 test graph.
NumOrders == 2

(***************************************************************************)
(* Arrays are functions on 0..len-1, as in C.                              *)
(***************************************************************************)
Idx(len) == 0..(len - 1)
ALen(a) == Cardinality(DOMAIN a)
\* The array f as a table of its elements.
Table(f) == f @@ << >>
Arr(s) == Table([i \in Idx(Len(s)) |-> s[i + 1]])
ARange(a) == {a[i] : i \in DOMAIN a}
\* The array a with a[i] = x.
SetAt(a, i, x) == (i :> x) @@ a
\* The element of the one-element set S.  The({e : x \in {v}}) is e with v
\* for x, the value v being computed once.
The(S) == CHOOSE x \in S : TRUE
Identity(n) == Table([i \in Idx(n) |-> i])
Inverse(p) == Table([y \in DOMAIN p |-> CHOOSE x \in DOMAIN p : p[x] = y])
SetMin(S) == CHOOSE x \in S : \A y \in S : x <= y
SetMax(S) == CHOOSE x \in S : \A y \in S : x >= y
RECURSIVE SortedSeq(_)
SortedSeq(S) == IF S = {} THEN << >>
                ELSE LET x == SetMin(S) IN <<x>> \o SortedSeq(S \ {x})

(***************************************************************************)
(* graph.c: a graph is its set of edges, an edge the pair (i, j), i < j.   *)
(***************************************************************************)
edge_make(i, j) == IF i < j THEN <<i, j>> ELSE <<j, i>>
edge_relabel(p, e) == edge_make(p[e[1]], p[e[2]])
graph_relabel(g, p) == {edge_relabel(p, e) : e \in g}
graph_add_edge(g, i, j) == g \cup {edge_make(i, j)}
Adjacent(g, i, j) == edge_make(i, j) \in g

(***************************************************************************)
(* Inputs.  reducer_parse either builds the symmetry graph from a CNF      *)
(* (lines 667-763) or reads it (graph_parse, lines 620-665).  A base       *)
(* record holds what parsing leaves in the reducer: the CNF, the base      *)
(* graph with its colours, the variable and the value vertices.            *)
(***************************************************************************)
Uninit == -2  \* contents of memory that was allocated and never written

\* reducer_parse, "Build the graph of symmetries from CNF".
CnfEdges(nv, clauses) ==
    {edge_make(i, nv + i) : i \in Idx(nv)} \cup
    {edge_make(i, 2 * nv + i) : i \in Idx(nv)} \cup
    UNION {{IF clauses[c][q] < 0
            THEN edge_make(nv + ((-clauses[c][q]) - 1), 3 * nv + 2 + (c - 1))
            ELSE edge_make(2 * nv + (clauses[c][q] - 1), 3 * nv + 2 + (c - 1))
            : q \in 1..Len(clauses[c])} : c \in 1..Len(clauses)}

CnfColors(nv, nc) ==
    Table([u \in Idx(3 * nv + 2 + nc) |->
              IF u < nv THEN 0
              ELSE IF u < 2 * nv THEN 1
              ELSE IF u < 3 * nv THEN 2
              ELSE IF u = 3 * nv THEN 3
              ELSE IF u = 3 * nv + 1 THEN 4
              ELSE 5])

CnfBase(nv, clauses) ==
    [have_cnf |-> 1, nv |-> nv, nc |-> Len(clauses), clauses |-> clauses,
     n |-> 3 * nv + 2 + Len(clauses),
     base |-> CnfEdges(nv, clauses),
     colors |-> CnfColors(nv, Len(clauses)),
     v |-> nv, var |-> Identity(nv),
     r |-> 2, val |-> Arr(<<3 * nv, 3 * nv + 1>>),
     var_trans |-> Table([u \in Idx(3 * nv + 2 + Len(clauses)) |->
                              IF u < nv THEN u ELSE -1])]

\* reducer_parse with an explicit graph ('-g'); legend[i] is the CNF variable
\* named by the tag of variable i when a CNF is present.
GraphBase(n, edges, colors, var, val, cnf, legend) ==
    [have_cnf |-> IF cnf.nv > 0 THEN 1 ELSE 0,
     nv |-> cnf.nv, nc |-> Len(cnf.clauses), clauses |-> cnf.clauses,
     n |-> n,
     base |-> {edge_make(e[1] - 1, e[2] - 1) : e \in edges},
     colors |-> Arr(colors),
     v |-> Len(var), var |-> Arr([i \in 1..Len(var) |-> var[i] - 1]),
     r |-> Len(val), val |-> Arr([i \in 1..Len(val) |-> val[i] - 1]),
     var_trans |->
        Table(IF cnf.nv > 0
              THEN [u \in Idx(n) |->
                      IF \E i \in 1..Len(var) : var[i] - 1 = u
                      THEN legend[CHOOSE i \in 1..Len(var) : var[i] - 1 = u] - 1
                      ELSE -1]
              ELSE [u \in Idx(n) |-> IF u < Len(var) THEN u ELSE Uninit])]

NoCnf == [nv |-> 0, clauses |-> << >>]

\* A000088-test.pl: the graph whose variable vertices are the pairs of an
\* np-element point set.
A000088Edges(np) ==
    LET ne == (np * (np - 1)) \div 2
        tv == ne
        eq == tv + 2
        pair(u, w) == u * np - ((u * (u + 1)) \div 2) + w - u
    IN  UNION {{IF i = j THEN <<eq + i + 1, tv + 1>>
                ELSE IF j = np THEN <<eq + i + 1, tv + 2>>
                ELSE IF i < j THEN <<eq + i + 1, pair(i, j)>>
                ELSE <<eq + i + 1, pair(j, i)>>
                : j \in 0..np} : i \in Idx(np)}

A000088Base(np) ==
    LET ne == (np * (np - 1)) \div 2
    IN  GraphBase(ne + 2 + np, A000088Edges(np),
                  [u \in 1..(ne + 2 + np) |->
                      IF u <= ne THEN 1
                      ELSE IF u = ne + 1 THEN 2
                      ELSE IF u = ne + 2 THEN 3 ELSE 4],
                  [i \in 1..ne |-> i], <<ne + 1, ne + 2>>, NoCnf, << >>)

\* README.txt, "Usage without an explicit symmetry graph".
ReadmeCnf == <<<<1, 2>>, <<1, 3, 5>>, <<2, 4, 6>>>>
\* README.txt, "Usage with CNF and an explicit symmetry graph".
ReadmeGraphBase ==
    GraphBase(8, {<<1, 3>>, <<1, 5>>, <<2, 4>>, <<2, 6>>},
              <<1, 1, 1, 1, 1, 1, 2, 3>>,
              <<1, 2, 3, 4, 5, 6>>, <<7, 8>>,
              [nv |-> 6, clauses |-> ReadmeCnf], <<1, 2, 3, 4, 5, 6>>)
\* README.txt, "Usage with the symmetry graph only".
ReadmeOnlyGraphBase ==
    GraphBase(8, {<<6, 4>>, <<6, 1>>, <<6, 2>>, <<6, 5>>, <<7, 1>>, <<7, 4>>,
                  <<7, 3>>, <<7, 5>>, <<8, 2>>, <<8, 3>>, <<8, 4>>, <<8, 5>>},
              <<1, 1, 1, 2, 3, 4, 4, 4>>,
              <<1, 2, 3>>, <<4, 5>>, NoCnf, << >>)
\* A path on four variable vertices and two isolated value vertices.
PathBase ==
    GraphBase(6, {<<1, 2>>, <<2, 3>>, <<3, 4>>}, <<1, 1, 1, 1, 2, 3>>,
              <<1, 2, 3, 4>>, <<5, 6>>, NoCnf, << >>)
\* Three variable vertices on a triangle and three value vertices.
TriangleBase ==
    GraphBase(6, {<<1, 2>>, <<2, 3>>, <<1, 3>>}, <<1, 1, 1, 2, 3, 4>>,
              <<1, 2, 3>>, <<4, 5, 6>>, NoCnf, << >>)

\* Two triangles of variable vertices, told apart by their colours.
TwoTrianglesBase ==
    GraphBase(8, {<<1, 2>>, <<2, 3>>, <<1, 3>>, <<4, 5>>, <<5, 6>>, <<4, 6>>},
              <<1, 1, 1, 2, 2, 2, 3, 4>>,
              <<1, 2, 3, 4, 5, 6>>, <<7, 8>>, NoCnf, << >>)
\* Three isolated variable vertices and four variable vertices on a cycle:
\* the orbit that is scanned first is the shorter one.
TriplePlusCycleBase ==
    GraphBase(9, {<<4, 5>>, <<5, 6>>, <<6, 7>>, <<4, 7>>},
              <<1, 1, 1, 2, 2, 2, 2, 3, 4>>,
              <<1, 2, 3, 4, 5, 6, 7>>, <<8, 9>>, NoCnf, << >>)
\* A graph whose first vertex is neither a variable nor a value vertex: the
\* variable vertices are not the first v vertices.
LeadingVertexBase ==
    GraphBase(5, {<<2, 3>>}, <<1, 2, 2, 3, 4>>,
              <<2, 3>>, <<4, 5>>, NoCnf, << >>)
\* Inputs that the check of the base graph rejects: a variable list that
\* leaves out a vertex of an orbit of variable vertices, and two value
\* vertices that an automorphism of the base graph exchanges.
SplitOrbitBase ==
    GraphBase(6, {<<1, 2>>, <<2, 3>>, <<3, 4>>}, <<1, 1, 1, 1, 2, 3>>,
              <<1, 2, 3>>, <<5, 6>>, NoCnf, << >>)
MovedValueBase ==
    GraphBase(5, {<<1, 2>>, <<2, 3>>}, <<1, 1, 1, 2, 2>>,
              <<1, 2, 3>>, <<4, 5>>, NoCnf, << >>)

Bases ==
    <<CnfBase(1, << >>),          \* 1: one variable, no clause
      CnfBase(6, ReadmeCnf),      \* 2
      ReadmeGraphBase,            \* 3
      ReadmeOnlyGraphBase,        \* 4
      PathBase,                   \* 5
      TriangleBase,               \* 6
      TwoTrianglesBase,           \* 7
      SplitOrbitBase,             \* 8
      MovedValueBase,             \* 9
      TriplePlusCycleBase,        \* 10
      LeadingVertexBase>>         \* 11
    \o [i \in 1..(MaxPoints - 1) |-> A000088Base(i + 1)]
A000088Id(np) == 11 + (np - 1)

(***************************************************************************)
(* The canonical labeler (nauty, called by graph_getcan).  It is not part  *)
(* of the repository and is modelled by its contract: the automorphisms of *)
(* a vertex-coloured graph, their orbits, a generating sequence, the       *)
(* stabilizer indices, and a canonical labeling.                           *)
(***************************************************************************)
Degree(g, n, u) == Cardinality({w \in Idx(n) : Adjacent(g, u, w)})

\* An order of the vertices in which every vertex has as many earlier
\* neighbours as possible, for the search below.
RECURSIVE SearchOrder(_, _, _, _)
SearchOrder(g, n, placed, rem) ==
    IF rem = {} THEN placed
    ELSE LET inplaced == {placed[i] : i \in 1..Len(placed)}
             score(u) == (Cardinality({w \in inplaced : Adjacent(g, u, w)})
                            * (n + 1) + Degree(g, n, u)) * (n + 1) + (n - u)
             best == CHOOSE u \in rem : \A w \in rem : score(u) >= score(w)
         IN  SearchOrder(g, n, Append(placed, best), rem \ {best})

\* All colour- and adjacency-preserving injections of the first vertices of
\* the order, extended vertex by vertex.
RECURSIVE ExtendMaps(_, _, _, _, _)
ExtendMaps(g, colors, ord, i, maps) ==
    IF i = Len(ord) \/ maps = {} THEN maps
    ELSE LET u == ord[i + 1]
             images(m) ==
                {w \in DOMAIN colors :
                    /\ colors[w] = colors[u]
                    /\ \A j \in 1..i :
                          /\ m[j] # w
                          /\ Adjacent(g, ord[j], u) = Adjacent(g, m[j], w)}
         IN  ExtendMaps(g, colors, ord, i + 1,
                        UNION {{Append(m, w) : w \in images(m)} : m \in maps})

\* Aut(g) as a set of permutations of 0..n-1.
Automorphisms(g, colors) ==
    LET n == ALen(colors)
        ord == SearchOrder(g, n, << >>, Idx(n))
        pos == [u \in Idx(n) |-> CHOOSE i \in 1..n : ord[i] = u]
    IN  {[u \in Idx(n) |-> m[pos[u]]] :
            m \in ExtendMaps(g, colors, ord, 0, {<< >>})}

\* Lexicographic order of permutations, to list a group in a fixed order.
PermLess(p, q) ==
    \E i \in DOMAIN p : p[i] < q[i] /\ \A j \in DOMAIN p : j < i => p[j] = q[j]
PermSort(S) ==
    LET ranked == {<<Cardinality({q \in S : PermLess(q, p)}) + 1, p>> : p \in S}
    IN  Table([k \in 1..Cardinality(S) |->
                  (CHOOSE x \in ranked : x[1] = k)[2]])

\* Aut(G0) of every base graph, listed in lexicographic order.
AutBase == Table([b \in DOMAIN Bases |->
                   PermSort(Automorphisms(Bases[b].base, Bases[b].colors))])

\* Every graph the reducer hands to the labeler is the base graph with edges
\* between variable and value vertices added.  Value vertices have a colour
\* of their own and no variable-coloured neighbour in the base graph, so an
\* isomorphism between two such graphs is an automorphism of the base graph.
ExtensionSafe(B) ==
    /\ \A s \in DOMAIN B.val : \A u \in Idx(B.n) :
          B.colors[u] = B.colors[B.val[s]] => u = B.val[s]
    /\ \A s \in DOMAIN B.val : \A u \in Idx(B.n) : \A i \in DOMAIN B.var :
          B.colors[u] = B.colors[B.var[i]] => ~Adjacent(B.base, u, B.val[s])

\* The elements of Aut(g), g an extension of base graph b, as positions in
\* AutBase.
AutOf(b, g) ==
    The({{i \in 1..Len(AutBase[b]) :
             \A e \in ext : edge_relabel(AutBase[b][i], e) \in ext}
         : ext \in {g \ Bases[b].base}})

\* Stabilizer chain of the group A (positions in the sequence A0 of
\* permutations): the index of each point stabilizer in the previous one,
\* and coset representatives as generators, deepest stabilizer first.
RECURSIVE StabChain(_, _, _)
StabChain(A0, A, n) ==
    IF Cardinality(A) <= 1 THEN [idx |-> << >>, gen |-> << >>]
    ELSE The({
        The({
            [idx |-> rest.idx \o <<Len(orbit) + 1>>,
             gen |-> rest.gen
                     \o [j \in 1..Len(orbit) |->
                           A0[SetMin({i \in A : A0[i][bp] = orbit[j]})]]]
            : orbit \in {SortedSeq({A0[i][bp] : i \in A} \ {bp})},
              rest \in {StabChain(A0, {i \in A : A0[i][bp] = bp}, n)}})
        : bp \in {SetMin({u \in Idx(n) : \E i \in A : A0[i][u] # u})}})

\* graph_getcan: what the labeler leaves in the graph structure; orb[u] is
\* the least vertex of the orbit of u.
graph_getcan(b, g) ==
    The({
        The({
            [order |-> Bases[b].n, b |-> b, edges |-> g,
             orb |-> Table([u \in Idx(Bases[b].n) |->
                               SetMin({A0[i][u] : i \in A})]),
             aut_gen |-> ch.gen,
             aut_idx |-> ch.idx]
            : ch \in {StabChain(A0, A, Bases[b].n)}})
        : A0 \in {AutBase[b]}, A \in {AutOf(b, g)}})

graph_order(G) == G.order
graph_orbits(G) == G.orb
graph_aut_gen(G) == G.aut_gen
graph_aut_idx(G) == G.aut_idx
graph_same_orbit(G, i, j) == IF i = j \/ G.orb[i] = G.orb[j] THEN 1 ELSE 0

\* graph_orbit_cells: the vertices sorted by orbit, every orbit sorted.
graph_orbit_cells(G) ==
    The({Table([t \in Idx(G.order) |-> sorted[t + 1] % G.order])
         : sorted \in {SortedSeq({G.orb[u] * G.order + u
                                    : u \in Idx(G.order)})}})

\* The labeling the graph starts with: the vertices sorted by colour.
InitLab(B) ==
    The({Table([t \in Idx(B.n) |-> sorted[t + 1] % B.n])
         : sorted \in {SortedSeq({B.colors[u] * B.n + u : u \in Idx(B.n)})}})

\* The canonical form of an extension g of the base graph is the least (or
\* the greatest, for the second labeler) image of its added edges under
\* Aut(G0); images are compared by the number whose binary digits are the
\* (vertex, value) pairs present.
ExtCode(B, e) ==
    The({B.r * u + (CHOOSE i \in DOMAIN B.val : B.val[i] = w)
         : w \in {IF e[1] \in ARange(B.val) THEN e[1] ELSE e[2]},
           u \in {IF e[1] \in ARange(B.val) THEN e[2] ELSE e[1]}})
RECURSIVE ExtKey(_, _, _)
ExtKey(B, ext, p) ==
    IF ext = {} THEN 0
    ELSE The({2 ^ ExtCode(B, edge_relabel(p, e)) + ExtKey(B, ext \ {e}, p)
              : e \in {CHOOSE x \in ext : TRUE}})

\* graph_can_lab: lab[t] is the vertex placed at position t of the canonical
\* form; isomorphic extensions get the same canonical form.
graph_can_lab(G, labeler) ==
    The({
        The({
            The({Table([t \in Idx(Bases[G.b].n) |-> c[lab0[t]]])
                 : c \in {Inverse(AutBase[G.b][
                              SetMin({x[2] : x \in {y \in keyed : y[1] = best}})])},
                   lab0 \in {InitLab(Bases[G.b])}})
            : best \in {IF labeler = "least"
                        THEN SetMin({x[1] : x \in keyed})
                        ELSE SetMax({x[1] : x \in keyed})}})
        : keyed \in {{<<ExtKey(Bases[G.b], G.edges \ Bases[G.b].base,
                               AutBase[G.b][i]), i>>
                      : i \in 1..Len(AutBase[G.b])}}})

(***************************************************************************)
(* reduce.c: subroutines for orbit traversals.                             *)
(***************************************************************************)
NULL == << >>
UninitRow(n) == [i \in Idx(n) |-> Uninit]

\* Variant: the generator itself is stored as the transversal element.
TravMark_Gen(st, p, j, list, n) ==
    [st EXCEPT !.ind = SetAt(st.ind, p[list[j]], -1),
               !.t = SetAt(st.t, st.ind[p[list[j]]], p)]
\* The visit of list position j under generator p that reaches a new
\* vertex (lines 467-469): its transversal element is stored and it is
\* marked.
TravMark(st, p, j, list, n) ==
    [st EXCEPT !.ind = SetAt(st.ind, p[list[j]], -1),
               !.t = SetAt(st.t, st.ind[p[list[j]]],
                           Table([i \in Idx(n) |-> p[st.t[j][i]]]))]
\* The pass over the list under generator p (lines 463-470).
RECURSIVE TravGen(_, _, _, _, _)
TravGen(st, p, j, list, n) ==
    IF j >= ALen(list) THEN st
    ELSE IF st.ind[p[list[j]]] >= 0 /\ st.ind[list[j]] < 0
    THEN TravGen(TravMark(st, p, j, list, n), p, j + 1, list, n)
    ELSE TravGen(st, p, j + 1, list, n)
\* One pass over all generators (the inner while loop, lines 461-472);
\* st.gi is the position of the generator iterator of the graph.
RECURSIVE TravSweep(_, _, _, _)
TravSweep(st, gens, list, n) ==
    IF st.gi > Len(gens) THEN [st EXCEPT !.gi = 1]
    ELSE TravSweep([TravGen(st, gens[st.gi], 0, list, n) EXCEPT !.gi = st.gi + 1],
                   gens, list, n)
\* Variant: one vertex done is enough.
TravDone_Any(st, list) == \E j \in DOMAIN list : st.ind[list[j]] < 0
TravDone(st, list) == \A j \in DOMAIN list : st.ind[list[j]] < 0
\* The outer loop (lines 450-473).  A sweep that marks nothing would be
\* repeated for ever; the model stops there and reports it.
RECURSIVE TravLoop(_, _, _, _)
TravLoop(st, gens, list, n) ==
    IF TravDone(st, list) THEN [st EXCEPT !.stuck = FALSE]
    ELSE The({IF nx = st THEN [st EXCEPT !.stuck = TRUE]
              ELSE TravLoop(nx, gens, list, n)
              : nx \in {TravSweep(st, gens, list, n)}})

\* The arrays ind and t of traversal_prepare before its loop
\* (lines 433-449).
TravStart(root, list, n) ==
    [ind |-> Table([i \in Idx(n) |->
                       IF i = root THEN -1
                       ELSE IF \E j \in DOMAIN list : list[j] = i
                            THEN CHOOSE j \in DOMAIN list : list[j] = i
                            ELSE -(n + 1)]),
     t |-> Table([j \in DOMAIN list |->
                     IF list[j] = root THEN Identity(n) ELSE UninitRow(n)]),
     gi |-> 1,
     stuck |-> FALSE]

traversal_prepare(root, G) ==
    The({
        The({
            [len |-> ALen(list), trav |-> fin.t,
             fault |-> IF fin.stuck THEN "HANG: traversal"
                       ELSE IF \E j \in DOMAIN list : fin.t[j][root] # list[j]
                            THEN "ABORT: bad traversal" ELSE ""]
            : fin \in {TravLoop(TravStart(root, list, graph_order(G)),
                                graph_aut_gen(G), list, graph_order(G))}})
        : list \in {Arr(SortedSeq({i \in Idx(graph_order(G)) :
                                     graph_same_orbit(G, i, root) = 1}))}})

(***************************************************************************)
(* reduce.c: orbit minima and orbit selection.                             *)
(***************************************************************************)
\* Variant: every position starts a cell.
CellStart_Every(p, c, i) == TRUE
\* Position i starts an orbit cell of the cell array p.
CellStart(p, c, i) == i = 0 \/ c[p[i - 1]] # c[p[i]]
\* First position after the cell that starts at i.
CellEnd(p, c, i, n) ==
    SetMin({j \in (i + 1)..n : j = n \/ c[p[i]] # c[p[j]]})

\* Variant: every vertex is marked.
orbit_min_ind_All(G, relabel) == Table([x \in Idx(graph_order(G)) |-> 1])
\* Variant: the relabeling is not applied.
orbit_min_ind_NoRelabel(G, relabel) ==
    Table([x \in Idx(graph_order(G)) |->
              IF \E i \in Idx(graph_order(G)) :
                    graph_orbit_cells(G)[i] = x
                    /\ CellStart(graph_orbit_cells(G), graph_orbits(G), i)
              THEN 1 ELSE 0])
\* orbit_min_ind: marks (the image under relabel of) the first vertex of
\* every orbit cell.
orbit_min_ind(G, relabel) ==
    The({
        The({Table([x \in Idx(graph_order(G)) |->
                       IF x \in marked THEN 1 ELSE 0])
             : marked \in {{IF relabel # NULL THEN relabel[p[i]] ELSE p[i] :
                              i \in {i \in Idx(graph_order(G)) :
                                        CellStart(p, graph_orbits(G), i)}}}})
        : p \in {graph_orbit_cells(G)}})

\* Variant: no generator makes an orbit good.
SelectGood_Never(num_fixed, num_moved) == FALSE
\* The generator has both a fixed and a moved point in the cell (line 1109).
SelectGood(num_fixed, num_moved) == num_fixed > 0 /\ num_moved > 0

\* Variant: the generator leaves the running maximum as it is.
SelectVisit_None(st, a, p, i, j) == st
\* The body of the generator loop of orbit_select for the cell p[i..j-1]
\* (lines 1081-1115): the points of the cell the generator fixes and moves
\* are counted along its cycles, then the running maximum is updated.
SelectVisit(st, a, p, i, j) ==
    The({IF SelectGood(Cardinality({z \in cell : a[z] = z}),
                       Cardinality({z \in cell : a[z] # z}))
            /\ (s1.have_good = 0 \/ j - i > s1.max_length)
         THEN [s1 EXCEPT !.max_length = j - i, !.max_p = p[i], !.have_good = 1]
         ELSE s1
         : cell \in {{p[u] : u \in i..(j - 1)}},
           s1 \in {IF st.have_good = 0 /\ j - i >= st.max_length
                   THEN [st EXCEPT !.max_length = j - i, !.max_p = p[i]]
                   ELSE st}})
RECURSIVE SelectGens(_, _, _, _, _, _)
SelectGens(st, gens, gi, p, i, j) ==
    IF gi > Len(gens) THEN st
    ELSE SelectGens(SelectVisit(st, gens[gi], p, i, j), gens, gi + 1, p, i, j)
\* The loop over the orbit cells (lines 1070-1119); q marks the variable
\* vertices that are not in the prefix.
RECURSIVE SelectCells(_, _, _, _, _, _, _)
SelectCells(st, gens, p, c, q, i, n) ==
    IF i >= n THEN st
    ELSE The({
        SelectCells(IF q[p[i]] > 0
                    THEN SelectGens(
                            IF st.have_first_eligible = 0
                            THEN [st EXCEPT !.have_first_eligible = 1,
                                            !.first_eligible = p[i]]
                            ELSE st,
                            gens, 1, p, i, j)
                    ELSE st,
                    gens, p, c, q, j, n)
        : j \in {CellEnd(p, c, i, n)}})

\* The array q of orbit_select (lines 1044-1050): the variable vertices
\* that are not in the prefix.
SelectEligible(n, l, m, k, f) ==
    Table([u \in Idx(n) |->
              IF (\E i \in Idx(l) : m[i] = u) /\ ~(\E i \in Idx(k) : f[i] = u)
              THEN 1 ELSE 0])

\* Variant: the previous traversal indicator is not looked at.
SelectPrevious_None(q, t, n) == {}
\* The eligible vertices of the previous traversal indicator t
\* (lines 1052-1060).
SelectPrevious(q, t, n) ==
    IF t = NULL THEN {} ELSE {i \in Idx(n) : q[i] > 0 /\ t[i] > 0}

\* orbit_select(g, l, m, k, f, t): m[0..l-1] the variable vertices,
\* f[0..k-1] the prefix, t the previous traversal indicator or NULL.
\* The result is the selected vertex, or -1 for "no eligible orbit".
orbit_select(G, l, m, k, f, t) ==
    The({
        The({
            IF prev # {} THEN SetMin(prev)
            ELSE The({IF fin.have_first_eligible = 0 THEN -1
                      ELSE IF fin.max_length >= 2 THEN fin.max_p
                      ELSE fin.first_eligible
                      : fin \in {SelectCells(
                                    [max_length |-> -1, max_p |-> 0,
                                     have_good |-> 0,
                                     have_first_eligible |-> 0,
                                     first_eligible |-> -1],
                                    graph_aut_gen(G), graph_orbit_cells(G),
                                    graph_orbits(G), q, 0, graph_order(G))}})
            : prev \in {SelectPrevious(q, t, graph_order(G))}})
        : q \in {SelectEligible(graph_order(G), l, m, k, f)}})

(***************************************************************************)
(* reduce.c: the reducer.  A reducer is a record with the fields of        *)
(* reducer_struct that change during a run and the input it was parsed     *)
(* from: b, the base record (CNF, base graph, variables, values), the      *)
(* threshold t and the target length.  Per-level arrays are functions on   *)
(* the levels written so far.  fault is "" until the program stops with    *)
(* ERROR or ABORT.  heap counts the blocks of the program that are         *)
(* allocated and not freed.                                                *)
(***************************************************************************)
NOGRAPH == {NULL}
Fault(r, msg) == [r EXCEPT !.fault = msg]

(***************************************************************************)
(* graph.c: the allocation wrappers.  heap counts the blocks that are      *)
(* allocated and not yet freed, by what they hold; a graph, the argument   *)
(* parser and a traversal are counted as one block each, since one         *)
(* function releases all their parts (graph_free, arg_free,                *)
(* traversal_release).  A block that a function allocates and frees        *)
(* itself on its one path (q, colors, ind, list, a), and the arrays that   *)
(* enlarge_* replaces by a new one, freeing the old one, are not counted.  *)
(***************************************************************************)
BlockNames ==
    {"argparse", "reducer", "clauses", "base", "var", "val", "legend",
     "prefix", "asgn", "var_trans", "init", "level", "traversal",
     "prefix_g", "nu", "H", "conjbuf"}
\* common_malloc_wrapper (lines 1014-1021): c blocks more.
Alloc(h, name, c) == [h EXCEPT ![name] = @ + c]
\* Variant: the blocks are not freed.
Release_Keep(h, name, c) == h
\* common_free_wrapper (lines 1023-1027): c blocks fewer.
Release(h, name, c) == [h EXCEPT ![name] = @ - c]
\* common_malloc_balance: the number of blocks allocated and not freed.
RECURSIVE SumOver(_, _)
SumOver(h, S) ==
    IF S = {} THEN 0
    ELSE The({h[x] + SumOver(h, S \ {x}) : x \in {CHOOSE y \in S : TRUE}})
common_malloc_balance(h) == SumOver(h, DOMAIN h)

\* The blocks held when reducer_parse returns: the argument parser
\* (arg_parse), the reducer, the clause buffer when there is a CNF, the base
\* graph, var and val, the two legend arrays with a string for every
\* variable and value, prefix, asgn and var_trans.
ParsedHeap(B) ==
    [name \in BlockNames |->
        IF name \in {"argparse", "reducer", "base", "var", "val", "prefix",
                     "asgn", "var_trans"} THEN 1
        ELSE IF name = "clauses" THEN B.have_cnf
        ELSE IF name = "legend" THEN 2 + B.v + B.r
        ELSE 0]

\* The element u of the array var_trans after lines 880-927: an element that
\* was not written holds what the allocated memory held, mem.
VarTrans(B, mem, u) == IF B.var_trans[u] = Uninit THEN mem ELSE B.var_trans[u]

\* An input: base record b, prefix given (0-based vertices), the '-l' length
\* (0 when the option is absent), the threshold t, and the contents mem of
\* the memory that is allocated for var_trans.
reducer_parse(in) ==
    LET k == Len(in.prefix)
        B == Bases[in.b]
        target == IF in.length > 0 THEN in.length ELSE k
        bad == \/ \E i \in 1..k : in.prefix[i] < 0 \/ in.prefix[i] >= B.n
               \/ \E i, j \in 1..k : i # j /\ in.prefix[i] = in.prefix[j]
               \/ \E i \in 1..k : VarTrans(B, in.mem, in.prefix[i]) = -1
               \/ in.t < 0
               \/ (target <= 0 /\ k = 0)
               \/ k > target
    IN  [b |-> in.b, t |-> in.t, target_length |-> target,
         prefix_capacity |-> IF k = 0 THEN 1 ELSE k,
         k |-> k, prefix |-> Arr(in.prefix),
         initialized |-> 0,
         orbits |-> << >>, trav_sizes |-> << >>, trav_ind |-> << >>,
         traversals |-> << >>, last_prefix_g |-> NOGRAPH,
         work |-> << >>, seed_min |-> << >>, scratch |-> << >>,
         stack_top |-> 0,
         stat_gen |-> << >>, stat_can |-> << >>, stat_out |-> << >>,
         heap |-> ParsedHeap(B),
         fault |-> IF bad THEN "ERROR: parse" ELSE ""]

\* Variant: the edge of the last prefix element is left out.
PrefixGraph_Short(B, prefix, m) ==
    B.base \cup {edge_make(prefix[j], B.val[0]) : j \in Idx(m - 1)}
\* G0 with the edges (prefix[j], val[0]), j < m, added.
PrefixGraph(B, prefix, m) ==
    B.base \cup {edge_make(prefix[j], B.val[0]) : j \in Idx(m)}

\* Variant: the base graph is not checked.
BaseCheck_Skip(B, G) == ""
\* reducer_expand_prefix, k = 0: "Check the base graph against the variable
\* and value lists" (lines 1159-1189).
BaseCheck(B, G) ==
    The({
        IF \E s \in Idx(n) : \E j \in Idx(n) :
              c[p[s]] = c[p[j]] /\ q[p[j]] # q[p[s]]
        THEN "ERROR: variable list is not a union of orbits of base graph"
        ELSE IF \E j \in Idx(n) : \E s \in Idx(B.r) :
                  /\ p[j] = B.val[s]
                  /\ \/ (j > 0 /\ c[p[j - 1]] = c[p[j]])
                     \/ (j < n - 1 /\ c[p[j]] = c[p[j + 1]])
        THEN "ERROR: value vertex is not fixed"
        ELSE ""
        : n \in {B.n}, p \in {graph_orbit_cells(G)}, c \in {graph_orbits(G)},
          q \in {Table([u \in Idx(B.n) |->
                           IF u \in ARange(B.var) THEN 1 ELSE 0])}})

\* enlarge_int_array, enlarge_long_array and enlarge_p_array (lines
\* 493-527): the new array holds the first capacity elements of the old
\* one; its other elements are memory that was never written.
enlarge_int_array(a, capacity, new_capacity) ==
    Table([i \in DOMAIN a |-> IF i < capacity THEN a[i] ELSE Uninit])
\* Variant: the elements of the old array are not copied.
enlarge_long_array_None(a, capacity, new_capacity) ==
    Table([i \in DOMAIN a |-> Uninit])
enlarge_long_array(a, capacity, new_capacity) ==
    Table([i \in DOMAIN a |-> IF i < capacity THEN a[i] ELSE Uninit])
enlarge_p_array(a, capacity, new_capacity) ==
    Table([i \in DOMAIN a |-> IF i < capacity THEN a[i] ELSE Uninit])

\* reducer_enlarge_prefix(r, capacity), on an initialized reducer (lines
\* 529-553): every array of the reducer is replaced by a larger one.
reducer_enlarge_prefix(r, capacity) ==
    The({
        IF c >= capacity
        THEN Fault(r, "ABORT: new capacity is no larger than old")
        ELSE [r EXCEPT
                !.prefix = enlarge_int_array(@, c, capacity),
                !.orbits = enlarge_p_array(@, c, capacity),
                !.seed_min = enlarge_p_array(@, c, capacity),
                !.trav_sizes = enlarge_int_array(@, c, capacity),
                !.trav_ind = enlarge_p_array(@, c, capacity),
                !.traversals = enlarge_p_array(@, c, capacity),
                !.work = enlarge_int_array(@, (2 * c + 1) * (c + 1),
                             (2 * capacity + 1) * (capacity + 1)),
                !.scratch = enlarge_int_array(@, 2 * c + 2, 2 * capacity + 2),
                !.stat_gen = enlarge_long_array(@, c, capacity),
                !.stat_can = enlarge_long_array(@, c, capacity),
                !.stat_out = enlarge_long_array(@, c, capacity),
                !.prefix_capacity = capacity]
        : c \in {r.prefix_capacity}})
\* The reducer with room for level k (lines 1135-1136).
EnlargedFor(r, k) ==
    IF k + 1 >= r.prefix_capacity
    THEN reducer_enlarge_prefix(r, 2 * r.prefix_capacity + 1)
    ELSE r

\* Variant: the prefix ends after the level that was built.
ExpandedLength_Level(rk, k) == k + 1
\* The length of the prefix after level k has been built (lines 1142-1147):
\* it grows when the level is the first one past the prefix.
ExpandedLength(rk, k) == IF rk = k THEN k + 1 ELSE rk

\* The reducer after level k has been built (lines 1139-1147 and
\* 1203-1232): prefix is the prefix with its element k, tp the traversal of
\* the level, hit the vertices the traversal reaches and G1 the graph with
\* the edge of the prefix element added.
ExpandLevel(r, k, prefix, tp, hit, G1) ==
    LET n == Bases[r.b].n
    IN  [r EXCEPT
           !.prefix = prefix,
           !.k = ExpandedLength(r.k, k),
           !.stat_gen = IF r.k = k THEN SetAt(r.stat_gen, k, 0) ELSE @,
           !.stat_can = IF r.k = k THEN SetAt(r.stat_can, k, 0) ELSE @,
           !.stat_out = IF r.k = k THEN SetAt(r.stat_out, k, 0) ELSE @,
           !.traversals = SetAt(r.traversals, k, tp.trav),
           !.trav_sizes = SetAt(r.trav_sizes, k, tp.len),
           !.trav_ind = SetAt(r.trav_ind, k,
                           Table([i \in Idx(n) |-> IF i \in hit THEN 1 ELSE 0])),
           !.seed_min = SetAt(r.seed_min, k, UninitRow(n)),
           !.orbits = SetAt(r.orbits, k,
                         Table([j \in Idx(n) |->
                                   graph_same_orbit(G1, prefix[k], j)]))]

\* The blocks after level k has been built from the graph prev: without a
\* graph given one is made of the base graph (line 1151); the three arrays
\* of the level and its traversal are allocated (lines 1205-1212), the
\* graph is freed (line 1214) and the graph that is returned is made (line
\* 1228).
ExpandHeap(h, prev) ==
    Alloc(Release(Alloc(Alloc(IF prev = NOGRAPH THEN Alloc(h, "prefix_g", 1)
                              ELSE h,
                              "level", 3),
                        "traversal", 1),
                  "prefix_g", 1),
          "prefix_g", 1)

\* reducer_expand_prefix(r, k, p, prev): builds level k for prefix element p
\* from the graph prev (or from the base graph when prev is NOGRAPH) and
\* returns the reducer and the graph with the edge of p added.
reducer_expand_prefix(r, k, p, prev) ==
    IF r.initialized = 0
    THEN [r |-> Fault(r, "ABORT: cannot expand an uninitialized prefix"),
          g |-> NOGRAPH]
    ELSE IF k > r.k
    THEN [r |-> Fault(r, "ABORT: unsupported expansion"), g |-> NOGRAPH]
    ELSE The({
        IF rG.fault # "" THEN [r |-> rG, g |-> NOGRAPH]
        ELSE The({
            The({
                IF chk # "" THEN [r |-> Fault(rG, chk), g |-> NOGRAPH]
                ELSE The({
                    IF tp.fault # ""
                    THEN [r |-> Fault(rG, tp.fault), g |-> NOGRAPH]
                    ELSE The({
                        [r |-> [ExpandLevel(rG, k, prefix, tp, hit, G1)
                                  EXCEPT !.heap = ExpandHeap(@, prev)],
                         g |-> G1.edges]
                        : hit \in {{tp.trav[j][prefix[k]] : j \in Idx(tp.len)}},
                          G1 \in {graph_getcan(r.b, PrefixGraph(Bases[r.b],
                                                                prefix, k + 1))}})
                    : tp \in {traversal_prepare(prefix[k], G)}})
                : chk \in {IF k = 0 THEN BaseCheck(Bases[r.b], G) ELSE ""}})
            : prefix \in {SetAt(rG.prefix, k, p)},
              G \in {graph_getcan(r.b,
                        IF prev = NOGRAPH
                        THEN PrefixGraph(Bases[r.b], SetAt(rG.prefix, k, p), k)
                        ELSE prev)}})
        : rG \in {EnlargedFor(r, k)}})

\* reducer_initialize: builds the levels of the prefix that was given.
RECURSIVE InitLevels(_, _, _)
InitLevels(r, i, g) ==
    IF i >= r.k \/ r.fault # "" THEN [r |-> r, g |-> g]
    ELSE The({InitLevels(x.r, i + 1, x.g)
              : x \in {reducer_expand_prefix(r, i, r.prefix[i], g)}})
reducer_initialize(r) ==
    IF r.initialized = 1 THEN r
    ELSE IF r.k > r.prefix_capacity THEN Fault(r, "ABORT: prefix overrun at init")
    ELSE The({IF x.g # NOGRAPH THEN [x.r EXCEPT !.last_prefix_g = x.g] ELSE x.r
              : x \in {InitLevels([r EXCEPT !.initialized = 1, !.stack_top = 0,
                                             !.heap = Alloc(@, "init", 10)],
                                  0, NOGRAPH)}})

\* aut_order_trunc: the product of the stabilizer indices, cut off at
\* 999999999 (line 1418).
RECURSIVE Product(_, _)
Product(s, i) == IF i > Len(s) THEN 1 ELSE s[i] * Product(s, i + 1)
\* Variant: the order is not cut off.
aut_order_trunc_Exact(G) == Product(graph_aut_idx(G), 1)
aut_order_trunc(G) ==
    The({IF aut_order < aut_trunc THEN aut_order ELSE aut_trunc
         : aut_order \in {Product(graph_aut_idx(G), 1)},
           aut_trunc \in {999999999}})

(***************************************************************************)
(* reduce.c: reducer_get_prefix_assignment.  The work stack is the flat    *)
(* integer array of the source: a frame of size s is vars[0..s-1],         *)
(* vals[0..s-1] and then s itself as the topmost integer.                  *)
(***************************************************************************)
\* Variant: the last integer, the size of the frame, is not stored.
Push_NoSize(work, top, ints) ==
    Table([i \in Idx(top + Len(ints)) |->
              IF i < top THEN work[i]
              ELSE IF i = top + Len(ints) - 1 THEN 0 ELSE ints[i - top + 1]])
\* The stack contents below position top, followed by the integers of ints.
Push(work, top, ints) ==
    Table([i \in Idx(top + Len(ints)) |->
              IF i < top THEN work[i] ELSE ints[i - top + 1]])
ASeq(a) == [i \in 1..ALen(a) |-> a[i - 1]]
FrameInts(vars, vals) == ASeq(vars) \o ASeq(vals) \o <<ALen(vars)>>

\* Variant: the seed minima are not looked at.
NextSeedMin_Any(r, lvl, s) == s
\* The first traversal position at or after s whose image is a seed
\* minimum of the level, or the traversal size when there is none.
NextSeedMin(r, lvl, s) ==
    SetMin({j \in s..r.trav_sizes[lvl] :
               j = r.trav_sizes[lvl]
               \/ r.seed_min[lvl][r.traversals[lvl][j][r.prefix[lvl]]] # 0})

\* Variant: the first frame starts with the second value.
FirstFrame_Second(v) == <<v, 1, 1>>
\* The frame that seeds the work stack (lines 1456-1464): the variable v
\* with value 0, and the size 1.
FirstFrame(v) == <<v, 0, 1>>

\* The entry of the function (lines 1427-1471): with an empty stack the
\* prefix is started if there is none, the seed minima of the base graph are
\* computed and the first frame is pushed.
reducer_get_entry(r) ==
    IF r.stack_top # 0 THEN r
    ELSE The({
        IF x.r.fault # "" THEN x.r
        ELSE The({
            The({
                IF s = r2.trav_sizes[0]
                THEN Fault(r2, "ABORT: no minimum found for base orbit")
                ELSE [r2 EXCEPT
                        !.work = Push(<< >>, 0,
                                      FirstFrame(r2.traversals[0][s]
                                                              [r2.prefix[0]])),
                        !.stack_top = 3,
                        !.stat_out = [i \in Idx(r2.k) |-> 0],
                        !.stat_gen = [i \in Idx(r2.k) |-> 0],
                        !.stat_can = [i \in Idx(r2.k) |-> 0]]
                : s \in {NextSeedMin(r2, 0, 0)}})
            : r2 \in {[x.r EXCEPT
                         !.last_prefix_g = x.g,
                         !.seed_min =
                            SetAt(@, 0, orbit_min_ind(
                                graph_getcan(r.b, Bases[r.b].base), NULL))]}})
        : x \in {IF r.k = 0
                 THEN The({
                     IF p = -1
                     THEN [r |-> Fault(r, "ABORT: no eligible orbit"),
                           g |-> NOGRAPH]
                     ELSE reducer_expand_prefix(r, r.k, p, NOGRAPH)
                     : p \in {orbit_select(
                                 graph_getcan(r.b, Bases[r.b].base),
                                 Bases[r.b].v, Bases[r.b].var,
                                 r.k, r.prefix, NULL)}})
                 ELSE [r |-> r, g |-> r.last_prefix_g]}})

\* The frame on top of the stack and the current variable in it
\* (lines 1473-1497).
TopFrame(r) ==
    The({
        The({
            The({
                [size |-> size, lvl |-> size - 1, vars |-> vars, vals |-> vals,
                 below |-> r.stack_top - (2 * size + 1),
                 current |-> current, current_idx |-> current_idx,
                 current_val |-> IF current = -1 THEN -1 ELSE vals[current_idx]]
                : current_idx \in
                    {IF current = -1 THEN -1
                     ELSE SetMax({i \in Idx(size) :
                             vars[i] = r.traversals[size - 1][current]
                                                   [r.prefix[size - 1]]})}})
            : current \in
                {IF hits = {} THEN -1 ELSE SetMax(hits)}})
        : size \in {r.work[r.stack_top - 1]},
          vars \in {Table([i \in Idx(r.work[r.stack_top - 1]) |->
                            r.work[r.stack_top - 1
                                   - 2 * r.work[r.stack_top - 1] + i]])},
          vals \in {Table([i \in Idx(r.work[r.stack_top - 1]) |->
                            r.work[r.stack_top - 1
                                   - r.work[r.stack_top - 1] + i]])},
          hits \in {{j \in Idx(r.trav_sizes[r.work[r.stack_top - 1] - 1]) :
                       \E i \in Idx(r.work[r.stack_top - 1]) :
                          r.work[r.stack_top - 1
                                 - 2 * r.work[r.stack_top - 1] + i]
                          = r.traversals[r.work[r.stack_top - 1] - 1][j]
                                        [r.prefix[r.work[r.stack_top - 1] - 1]]}}})

\* The extended graph of a candidate (lines 1511-1518); an edge that is
\* already present would be stored twice, which the graph layer forbids.
CandidateEdges(r, f) ==
    {edge_make(f.vars[i],
               Bases[r.b].val[IF i # f.current_idx THEN f.vals[i]
                              ELSE f.current_val]) : i \in Idx(f.size)}
CandidateGraph(r, f) == Bases[r.b].base \cup CandidateEdges(r, f)
RepeatedEdge(r, f) ==
    \/ CandidateEdges(r, f) \cap Bases[r.b].base # {}
    \/ Cardinality(CandidateEdges(r, f)) # f.size
\* graph_add_edge refuses an edge from a vertex to itself (line 263).
BadEdge(r, f) == \E e \in CandidateEdges(r, f) : e[1] = e[2]

\* Isomorph rejection (lines 1519-1529): the first vertex of the canonical
\* labeling that nu takes into the orbit of the prefix element.
QLab(r, f, nu, lab) ==
    The({IF ts = {} THEN -1 ELSE lab[SetMin(ts)]
         : ts \in {{t \in Idx(Bases[r.b].n) :
                      r.orbits[f.lvl][nu[lab[t]]] # 0}}})

\* Variant: the last value of every variable is left out.
HasValue_SkipLast(cv, d) == cv < d - 1
\* The current variable has a value left to try (line 1500).
HasValue(cv, d) == cv < d

\* Variant: isomorph rejection accepts every candidate.
Canonical_Any(G, qlab, v) == graph_same_orbit(G, qlab, v) >= 0
\* The candidate is accepted by isomorph rejection (line 1530).
Canonical(G, qlab, v) == graph_same_orbit(G, qlab, v) # 0

\* Variant: every variable is normalized as the first one.
NormVars_First(nu, vars, size) == Table([i \in Idx(size) |-> nu[vars[0]]])
\* Normalization of the variables of the frame (lines 1537-1538).
NormVars(nu, vars, size) == Table([i \in Idx(size) |-> nu[vars[i]]])

\* Variant: every accepted candidate is reported.
Reported_Always(r, size, aut) == size >= 1
\* Variant: the threshold t is ignored.
Reported_AtTarget(r, size, aut) == size = r.target_length
\* The accepted candidate is reported to the caller (line 1546).
Reported(r, size, aut) == size = r.target_length \/ aut <= r.t

\* Variant: the value indices are reported, not the value vertices.
ReportVals_Index(B, norm_vals, size) == [i \in 1..size |-> norm_vals[i - 1]]
\* The values of a reported record: value vertices (lines 1547-1548).
ReportVals(B, norm_vals, size) == [i \in 1..size |-> B.val[norm_vals[i - 1]]]

\* Variant: the new variable starts with its second value.
ChildFrame_Second(norm_vars, norm_vals, size, x) ==
    FrameInts(SetAt(norm_vars, size, x), SetAt(norm_vals, size, 1))
\* The frame pushed for an accepted candidate that is expanded: the
\* normalized frame and the variable x with its first value
\* (lines 1573-1593).
ChildFrame(norm_vars, norm_vals, size, x) ==
    FrameInts(SetAt(norm_vars, size, x), SetAt(norm_vals, size, 0))

\* Variant: the exhausted frame is left on the stack as it is.
NextVariable_Stay(r, f) == r
\* The values of the frame are exhausted (lines 1601-1614): the frame is
\* pushed back with the next variable of the level, or stays popped.
NextVariable(r, f) ==
    The({IF nxt < r.trav_sizes[f.lvl]
         THEN [r EXCEPT !.work =
                  Push(r.work, f.below,
                       FrameInts(SetAt(f.vars, f.current_idx,
                                       r.traversals[f.lvl][nxt][r.prefix[f.lvl]]),
                                 SetAt(f.vals, f.current_idx, 0)))]
         ELSE [r EXCEPT !.work = Push(r.work, f.below, << >>),
                        !.stack_top = f.below]
         : nxt \in {NextSeedMin(r, f.lvl, f.current + 1)}})

\* The inverse permutation nu and the extended graph of the candidate are
\* allocated (lines 1506 and 1511) and freed (lines 1550-1551 before the
\* record is returned, lines 1599-1600 at the end of the pass).
CandidateAlloc(h) == Alloc(Alloc(h, "nu", 1), "H", 1)
CandidateFree(h) == Release(Release(h, "nu", 1), "H", 1)

\* The accepted candidate is not reported (lines 1555-1597): the prefix is
\* extended when the candidate is as long as the prefix, the seed minima of
\* the next level are computed from the candidate, and the frame of the
\* candidate, read from the scratch array, with the first variable of the
\* next level is pushed.  rC holds the normalized candidate in its scratch
\* array.
StepExpand(r, rA, rC, f, nu, G, norm_vars, norm_vals, aut) ==
    The({
        IF x.r.fault # "" THEN [r |-> x.r, ret |-> 0]
        ELSE The({
            The({
                IF s = rE.trav_sizes[f.lvl + 1]
                THEN [r |-> Fault(rE, "ABORT: no minimum found in extending orbit"),
                      ret |-> 0]
                ELSE [r |-> [rE EXCEPT
                               !.work = Push(rE.work, r.stack_top,
                                   ChildFrame(
                                       Table([i \in Idx(f.size) |->
                                                 rE.scratch[1 + i]]),
                                       Table([i \in Idx(f.size) |->
                                                 rE.scratch[1 + f.size + i]]),
                                       f.size,
                                       rE.traversals[f.lvl + 1][s]
                                                    [rE.prefix[f.lvl + 1]])),
                               !.stack_top = r.stack_top + 2 * (f.size + 1) + 1,
                               !.heap = CandidateFree(@)],
                      ret |-> 0]
                : s \in {NextSeedMin(rE, f.lvl + 1, 0)}})
            : rE \in {[x.r EXCEPT
                         !.last_prefix_g = x.g,
                         !.seed_min = SetAt(@, f.lvl + 1,
                                            orbit_min_ind(G, nu))]}})
        : x \in {IF f.size + 1 > rC.k
                 THEN The({
                     IF p = -1
                     THEN [r |-> Fault(rC, "ABORT: no eligible orbit"),
                           g |-> NOGRAPH]
                     ELSE reducer_expand_prefix(rC, rC.k, p, rC.last_prefix_g)
                     : p \in {orbit_select(
                                 graph_getcan(r.b, rC.last_prefix_g),
                                 Bases[r.b].v, Bases[r.b].var, rC.k, rC.prefix,
                                 IF rC.k > 0 THEN rC.trav_ind[rC.k - 1]
                                 ELSE NULL)}})
                 ELSE [r |-> rC, g |-> rC.last_prefix_g]}})

\* The candidate was accepted by isomorph rejection (lines 1533-1554): it
\* is normalized, and reported or expanded.
StepAccepted(r, rA, f, nu, G) ==
    The({
        IF Reported(r, f.size, aut)
        THEN [r |-> [rC EXCEPT
                       !.scratch = Arr(<<f.size>> \o ASeq(norm_vars)
                                       \o ReportVals(Bases[r.b], norm_vals, f.size)
                                       \o <<aut>>),
                       !.stat_out = SetAt(@, f.lvl, @[f.lvl] + 1),
                       !.heap = CandidateFree(@)],
              ret |-> 1]
        ELSE StepExpand(r, rA, rC, f, nu, G, norm_vars, norm_vals, aut)
        : norm_vars \in {NormVars(nu, f.vars, f.size)},
          norm_vals \in {Table([i \in Idx(f.size) |->
                                  IF i # f.current_idx THEN f.vals[i]
                                  ELSE f.current_val])},
          aut \in {aut_order_trunc(G)},
          rC \in {[rA EXCEPT
                     !.stat_can = SetAt(@, f.lvl, @[f.lvl] + 1),
                     !.scratch =
                        Arr(<<f.size>> \o ASeq(NormVars(nu, f.vars, f.size))
                            \o [i \in 1..f.size |->
                                   IF i - 1 # f.current_idx THEN f.vals[i - 1]
                                   ELSE f.current_val]
                            \o <<aut_order_trunc(G)>>)]}})

\* The current variable has a value to try (lines 1500-1531): the frame is
\* pushed back with the next value, and the candidate is built and tested.
StepCandidate(r, labeler, f) ==
    The({
        IF nu[f.vars[f.current_idx]] # r.prefix[f.lvl]
        THEN [r |-> Fault(rA, "ABORT: bad nu"), ret |-> 0]
        ELSE IF BadEdge(r, f)
        THEN [r |-> Fault(rA, "ABORT: bad edge"), ret |-> 0]
        ELSE IF RepeatedEdge(r, f)
        THEN [r |-> Fault(rA, "ABORT: repeated edge"), ret |-> 0]
        ELSE The({
            The({
                IF qlab = -1
                THEN [r |-> Fault(rA, "ABORT: bad qlab"), ret |-> 0]
                ELSE IF ~Canonical(G, qlab, f.vars[f.current_idx])
                THEN [r |-> [rA EXCEPT !.heap = CandidateFree(@)], ret |-> 0]
                ELSE StepAccepted(r, rA, f, nu, G)
                : qlab \in {QLab(r, f, nu, graph_can_lab(G, labeler))}})
            : G \in {graph_getcan(r.b, CandidateGraph(r, f))}})
        : rA \in {[r EXCEPT
                     !.stat_gen = SetAt(@, f.lvl, @[f.lvl] + 1),
                     !.work = Push(r.work, f.below,
                                   FrameInts(f.vars,
                                       SetAt(f.vals, f.current_idx,
                                             f.current_val + 1))),
                     !.heap = CandidateAlloc(@)]},
          nu \in {Inverse(r.traversals[f.lvl][f.current])}})

\* One pass through the body of the while loop (lines 1472-1615).  ret is
\* 1 when the pass returns the scratch record to the caller.
reducer_get_step(r, labeler) ==
    The({
        IF f.current = -1
        THEN [r |-> Fault(r, "ABORT: no current variable"), ret |-> 0]
        ELSE IF f.size >= r.prefix_capacity
        THEN [r |-> Fault(r, "ABORT: prefix overrun"), ret |-> 0]
        ELSE IF HasValue(f.current_val, Bases[r.b].r)
        THEN StepCandidate(r, labeler, f)
        ELSE [r |-> NextVariable(r, f), ret |-> 0]
        : f \in {TopFrame(r)}})

(***************************************************************************)
(* The inputs of the model.                                                *)
(***************************************************************************)
\* Orders in which a prefix lists all variable vertices 0..ne-1: the
\* identity, its reverse, and further shuffles of these.
Reverse(s) == [i \in 1..Len(s) |-> s[Len(s) + 1 - i]]
Riffle(s) ==
    LET odd == SortedSeq({i \in 1..Len(s) : s[i] % 2 = 1})
        even == SortedSeq({i \in 1..Len(s) : s[i] % 2 = 0})
    IN  [j \in 1..Len(odd) |-> s[odd[j]]]
        \o Reverse([j \in 1..Len(even) |-> s[even[j]]])
RECURSIVE Order(_, _)
Order(ne, o) ==
    IF o = 0 THEN [i \in 1..ne |-> i - 1]
    ELSE IF o = 1 THEN [i \in 1..ne |-> ne - i]
    ELSE Riffle(Order(ne, o - 2))

\* An input whose allocated memory holds mem in every element.
InMem(b, prefix, length, t, mem) ==
    [b |-> b, prefix |-> prefix, length |-> length, t |-> t, mem |-> mem]
In(b, prefix, length, t) == InMem(b, prefix, length, t, Uninit)

Inputs ==
    {In(1, <<0>>, 0, 0),                   \* one variable, K = 1
     In(2, <<2, 3>>, 0, 0),                \* README: CNF, prefix 3 4
     In(2, <<2>>, 0, 0),
     In(3, <<0, 1, 2, 3, 4, 5>>, 0, 0),    \* README: CNF and graph
     In(3, <<4, 0>>, 3, 1),
     In(4, <<0, 1, 2>>, 0, 0),             \* README: graph only
     In(4, <<2, 0, 1>>, 0, 0),
     In(4, <<0, 1, 2>>, 0, 1000000000),
     In(4, <<0, 1, 2>>, 0, 1),
     In(4, <<1>>, 3, 1),
     In(5, << >>, 4, 0),                   \* path, adaptive prefix
     In(5, << >>, 4, 1000000000),
     In(5, << >>, 4, 1),
     In(5, << >>, 1, 0),
     In(5, <<3, 1, 0, 2>>, 0, 0),
     In(6, << >>, 1, 0),                   \* triangle, three values
     In(6, << >>, 2, 0),
     In(6, <<1, 2, 0>>, 0, 0),
     In(6, <<2>>, 3, 1),
     In(7, << >>, 2, 0),                   \* two triangles
     In(7, <<4>>, 3, 0),
     In(10, << >>, 1, 0)}                  \* shorter orbit scanned first
    \cup {In(A000088Id(np), Order((np * (np - 1)) \div 2, o), 0, 0) :
             np \in 2..MaxPoints, o \in Idx(NumOrders)}

Labelers == {"least", "greatest"}

(***************************************************************************)
(* The program: main() parses and initializes the reducer, then calls      *)
(* reducer_get_prefix_assignment until it returns NULL; a returned record  *)
(* is printed, or stored for the CNF that is printed at the end.           *)
(***************************************************************************)
VARIABLES
    r,          \* the reducer
    labeler,    \* which canonical form the labeler computes
    pc,         \* where the program is
    emitted,    \* the records returned by the reducer so far
    paths,      \* for every returned record, the choices that led to it
    count,      \* main: number of records received
    conjbuf,    \* main: the stored conjuncts, each closed by 0
    output      \* main: what has been written to the output file
vars == <<r, labeler, pc, emitted, paths, count, conjbuf, output>>

Init ==
    /\ \E in \in Inputs : r = reducer_parse(in)
    /\ labeler \in Labelers
    /\ pc = IF r.fault # "" THEN "exit" ELSE "init"
    /\ emitted = << >>
    /\ paths = << >>
    /\ count = 0
    /\ conjbuf = << >>
    /\ output = << >>

\* The record in the scratch array a, as the caller reads it.
Record(a) ==
    LET size == a[0]
    IN  [size |-> size,
         vars |-> [i \in 1..size |-> a[i]],
         vals |-> [i \in 1..size |-> a[i + size]],
         aut |-> a[2 * size + 1]]

\* The choices on the stack, from the bottom frame to the frame that ends
\* below position top: for every frame the traversal position of its
\* current variable and the value that was tried last (the frame stores the
\* value to try next).
RECURSIVE ChoicePath(_, _)
ChoicePath(rd, top) ==
    IF top <= 0 THEN << >>
    ELSE The({Append(ChoicePath(rd, f.below), <<f.current, f.current_val - 1>>)
              : f \in {TopFrame([rd EXCEPT !.stack_top = top])}})

\* main, with a CNF: the buffer of the conjuncts is allocated (line 1725).
MainBuffer(rd) ==
    IF rd.fault = "" /\ Bases[rd.b].have_cnf = 1
    THEN [rd EXCEPT !.heap = Alloc(@, "conjbuf", 1)]
    ELSE rd

\* reducer_free (lines 1301-1342): the blocks left after the reducer has
\* been released.
reducer_free(rd) ==
    The({
        The({
            The({
                Release(Release(Release(Release(Release(Release(Release(Release(
                    h3, "var_trans", 1), "prefix", 1), "asgn", 1),
                    "legend", 2 + Bases[rd.b].r + Bases[rd.b].v), "val", 1),
                    "var", 1), "base", 1), "reducer", 1)
                : h3 \in {IF Bases[rd.b].have_cnf = 1
                          THEN Release(h2, "clauses", 1) ELSE h2}})
            : h2 \in {IF rd.last_prefix_g # NOGRAPH
                      THEN Release(h1, "prefix_g", 1) ELSE h1}})
        : h1 \in {IF rd.initialized = 1
                  THEN Release(Release(Release(rd.heap, "init", 10),
                                       "traversal", rd.k),
                               "level", 3 * rd.k)
                  ELSE rd.heap}})
\* arg_free (lines 291-299).
arg_free(h) == Release(h, "argparse", 1)

\* main, lines 1773-1822: the conjunct buffer, the reducer and the argument
\* parser are released and the balance of the allocations is checked.
MainExit(rd) ==
    The({
        IF common_malloc_balance(h) # 0
        THEN Fault([rd EXCEPT !.heap = h], "ABORT: nonzero malloc balance")
        ELSE [rd EXCEPT !.heap = h]
        : h \in {arg_free(reducer_free(
                    IF Bases[rd.b].have_cnf = 1
                    THEN [rd EXCEPT !.heap = Release(@, "conjbuf", 1)]
                    ELSE rd))}})

\* main: reducer_initialize (line 1708) and, with a CNF, the allocation of
\* the conjunct buffer.
Initialize ==
    /\ pc = "init"
    /\ r' = MainBuffer(reducer_initialize(r))
    /\ pc' = IF r'.fault # "" THEN "exit" ELSE "call"
    /\ UNCHANGED <<labeler, emitted, paths, count, conjbuf, output>>

\* A call of reducer_get_prefix_assignment, up to the while loop.
Call ==
    /\ pc = "call"
    /\ r' = IF r.target_length = 0 THEN r ELSE reducer_get_entry(r)
    /\ pc' = IF r'.fault # "" THEN "exit"
             ELSE IF r.target_length = 0 THEN "nomore"
             ELSE "loop"
    /\ UNCHANGED <<labeler, emitted, paths, count, conjbuf, output>>

\* One pass through the while loop; the pass that accepts a record to be
\* reported returns it to the caller.
Step ==
    /\ pc = "loop"
    /\ r.stack_top > 0
    /\ \E x \in {reducer_get_step(r, labeler)} :
           /\ r' = x.r
           /\ pc' = IF x.r.fault # "" THEN "exit"
                    ELSE IF x.ret = 1 THEN "returned"
                    ELSE "loop"
           /\ emitted' = IF x.ret = 1 /\ x.r.fault = ""
                         THEN Append(emitted, Record(x.r.scratch))
                         ELSE emitted
           /\ paths' = IF x.ret = 1 /\ x.r.fault = ""
                       THEN Append(paths, ChoicePath(x.r, x.r.stack_top))
                       ELSE paths
    /\ UNCHANGED <<labeler, count, conjbuf, output>>

\* The stack is empty: the call returns NULL (lines 1616-1620).
ReturnNull ==
    /\ pc = "loop"
    /\ r.stack_top <= 0
    /\ pc' = IF r.stack_top < 0 THEN "exit" ELSE "nomore"
    /\ r' = IF r.stack_top < 0 THEN Fault(r, "ABORT: work stack out of balance")
            ELSE r
    /\ UNCHANGED <<labeler, emitted, paths, count, conjbuf, output>>

\* The literal of a stored conjunct (lines 1739-1741).
Literal(B, a, i) ==
    IF a[1 + i + a[0]] = B.val[0]
    THEN -(1 + B.var_trans[a[1 + i]])
    ELSE 1 + B.var_trans[a[1 + i]]

\* main: the body of the loop that receives the records.  Without a CNF the
\* record is printed; with a CNF its literals are stored.
Consume ==
    /\ pc = "returned"
    /\ LET B == Bases[r.b]
           a == r.scratch
           len == a[0]
       IN  /\ count' = count + 1
           /\ IF B.have_cnf = 0
              THEN /\ output' = Append(output,
                                   [count |-> count + 1, aut |-> a[2 * len + 1],
                                    line |-> [i \in 1..len |->
                                                <<a[i], a[i + len]>>]])
                   /\ UNCHANGED conjbuf
              ELSE /\ conjbuf' = conjbuf
                                 \o [i \in 1..len |-> Literal(B, a, i - 1)]
                                 \o <<0>>
                   /\ UNCHANGED output
    /\ pc' = "call"
    /\ UNCHANGED <<r, labeler, emitted, paths>>

\* The conjunct clauses printed after the CNF (lines 1750-1772): a 2-clause
\* for every stored literal, then the clause of the conjunct variables.  The
\* clauses of positions lo..hi of the buffer are those of its two halves;
\* u is the number of zeros before the position.
RECURSIVE ConjunctClauses(_, _, _, _)
ConjunctClauses(buf, lo, hi, nv_base) ==
    IF lo > hi THEN << >>
    ELSE IF lo = hi
    THEN IF buf[lo] = 0 THEN << >>
         ELSE <<<<buf[lo],
                  -(1 + nv_base
                      + Cardinality({c \in 1..(lo - 1) : buf[c] = 0}))>>>>
    ELSE ConjunctClauses(buf, lo, (lo + hi) \div 2, nv_base)
         \o ConjunctClauses(buf, (lo + hi) \div 2 + 1, hi, nv_base)
Zeros(buf) == Cardinality({i \in 1..Len(buf) : buf[i] = 0})
FinalClause(cnt, nv_base) ==
    IF cnt = 0 THEN << >> ELSE <<[i \in 1..cnt |-> nv_base + i]>>

\* Variant: the final clause is not counted.
Header_NoFinal(B, cnt, cursor) == <<B.nv + cnt, B.nc + (cursor - cnt)>>
\* The header printed by reducer_print_cnf: the variables and clauses of
\* the CNF and those that main adds (lines 1750-1752).
Header(B, cnt, cursor) == <<B.nv + cnt, B.nc + (cursor - cnt + 1)>>

\* main, after NULL was returned: with a CNF, reducer_print_cnf with the
\* adjusted header and then the conjunct clauses are written.
Finish ==
    /\ pc = "nomore"
    /\ LET B == Bases[r.b]
           cursor == Len(conjbuf)
       IN  IF B.have_cnf = 0
           THEN /\ r' = MainExit(r)
                /\ pc' = IF r'.fault # "" THEN "exit" ELSE "done"
                /\ UNCHANGED output
           ELSE IF Zeros(conjbuf) # count
           THEN /\ pc' = "exit"
                /\ UNCHANGED r
                /\ output' = <<[header |-> Header(B, count, cursor),
                               clauses |-> B.clauses
                                 \o ConjunctClauses(conjbuf, 1, cursor, B.nv)]>>
           ELSE /\ r' = MainExit(r)
                /\ pc' = IF r'.fault # "" THEN "exit" ELSE "done"
                /\ output' = <<[header |-> Header(B, count, cursor),
                               clauses |-> B.clauses
                                 \o ConjunctClauses(conjbuf, 1, cursor, B.nv)
                                 \o FinalClause(count, B.nv)]>>
    /\ UNCHANGED <<labeler, emitted, paths, count, conjbuf>>

Next == Initialize \/ Call \/ Step \/ ReturnNull \/ Consume \/ Finish

Spec == Init /\ [][Next]_vars

\* A pass of the loop can be taken: it changes the state of the program.
StepEnabled ==
    /\ pc = "loop"
    /\ r.stack_top > 0
    /\ \E x \in {reducer_get_step(r, labeler)} : x.r # r \/ x.ret = 1

\* The program runs until it ends: no step is postponed for ever.  This is
\* weak fairness of every action; for Initialize, Call and Step it is
\* written out, with the condition under which the action is enabled.
FairSpec ==
    /\ Spec
    /\ WF_vars(ReturnNull) /\ WF_vars(Consume) /\ WF_vars(Finish)
    /\ ([]<>(pc # "init") \/ []<><<Initialize>>_vars)
    /\ ([]<>(pc # "call") \/ []<><<Call>>_vars)
    /\ ([]<>~StepEnabled \/ []<><<Step>>_vars)
(***************************************************************************)
(* Properties.  A record is read as the set of its (variable vertex, value *)
(* vertex) pairs; Aut(G0) acts on these sets.                              *)
(***************************************************************************)
TheBase == Bases[r.b]
AutG0 == {AutBase[r.b][i] : i \in 1..Len(AutBase[r.b])}
Pairs(rec) == {<<rec.vars[i], rec.vals[i]>> : i \in 1..rec.size}
Image(g, P) == {<<g[x[1]], g[x[2]]>> : x \in P}
Related(P, Q) == \E g \in AutG0 : Image(g, P) = Q
\* The order of the automorphism group of the base graph extended by P.
AutOrder(P) == Cardinality({g \in AutG0 : Image(g, P) = P})

\* The assignments of values to the first s prefix variables.
PrefixAssignments(s) == [Idx(s) -> Idx(TheBase.r)]
AssignmentPairs(s, alpha) ==
    {<<r.prefix[i], TheBase.val[alpha[i]]>> : i \in Idx(s)}

\* All images of the emitted records, each with the index of its record.
Images ==
    {<<i, Image(g, Pairs(emitted[i]))>> : i \in 1..Len(emitted), g \in AutG0}
\* The emitted records in the orbit of P, img being Images.
Representatives(img, P) == {i \in 1..Len(emitted) : <<i, P>> \in img}

\* C1 (canonicity): no two emitted records of the same size are related by
\* an element of Aut(G0).  Every record is compared, in the state in which
\* it is returned, with all records returned before it.
C1_Canonicity ==
    pc = "returned" =>
        \A i \in 1..(Len(emitted) - 1) :
            emitted[i].size = emitted[Len(emitted)].size
            => ~Related(Pairs(emitted[i]), Pairs(emitted[Len(emitted)]))

\* A record is returned after another of its size, and isomorph rejection
\* has rejected a candidate of that size.
C1_Witness ==
    /\ pc = "returned"
    /\ Len(emitted) >= 2
    /\ emitted[Len(emitted)].size = emitted[Len(emitted) - 1].size
    /\ emitted[Len(emitted)].size >= 2
    /\ r.stat_can[emitted[Len(emitted)].size - 1]
         < r.stat_gen[emitted[Len(emitted)].size - 1]

\* The emission condition of a partial assignment of length s.
EmissionCondition(s, P) == s = r.target_length \/ AutOrder(P) <= r.t

A000088 == <<1, 2, 4, 11, 34, 156>>
\* The prefix lists every variable vertex once, and K = v, t = 0.
FullPrefix ==
    /\ r.k = TheBase.v
    /\ r.target_length = TheBase.v
    /\ r.t = 0
    /\ {r.prefix[i] : i \in Idx(r.k)} = ARange(TheBase.var)
\* The orbits under Aut(G0) of the total assignments V -> R.
TotalOrbits ==
    {{Image(g, AssignmentPairs(TheBase.v, alpha)) : g \in AutG0} :
        alpha \in PrefixAssignments(TheBase.v)}

\* C3 (counts): at the end of a run whose prefix lists all v variable
\* vertices, with K = v and t = 0, the number of emitted records is the
\* number of orbits of Aut(G0) on the total assignments; for the A000088
\* graph on np points it is the number of unlabeled graphs on np vertices,
\* whatever the order of the prefix.
C3_OrbitCount ==
    (pc = "done" /\ FullPrefix) =>
        /\ Len(emitted) = Cardinality(TotalOrbits)
        /\ \A np \in 2..MaxPoints :
              r.b = A000088Id(np) => Len(emitted) = A000088[np]

\* A run on the A000088 graph on four points whose prefix is not in
\* increasing order has ended with 11 records.
C3_Witness ==
    /\ pc = "done"
    /\ FullPrefix
    /\ r.b = A000088Id(4)
    /\ r.prefix[0] # 0
    /\ Len(emitted) = 11

\* The (variable, value) pairs of the candidate on top of the stack.
CandidatePairs ==
    LET f == TopFrame(r)
    IN  {<<f.vars[i],
           TheBase.val[IF i # f.current_idx THEN f.vals[i] ELSE f.current_val]>> :
            i \in Idx(f.size)}
\* The pass of the loop accepts its candidate by isomorph rejection.
Accepts ==
    /\ pc = "loop"
    /\ r.stack_top > 0
    /\ r'.fault = ""
    /\ r'.stat_can # r.stat_can
\* The group order as the reducer reports it.
TruncatedOrder(P) == IF AutOrder(P) > 999999999 THEN 999999999 ELSE AutOrder(P)

\* C4 (emission condition): a pass that accepts a candidate of size s
\* returns it to the caller if and only if s = K or its truncated group
\* order is at most t; when it is returned no frame is pushed for it, and
\* when it is not returned exactly one frame, of size s + 1, is pushed on
\* top of the frame of size s.
C4_EmissionCondition ==
    [][Accepts =>
        LET s == TopFrame(r).size
        IN  /\ pc' = "returned"
                <=> (s = r.target_length \/ TruncatedOrder(CandidatePairs) <= r.t)
            /\ r'.work[r.stack_top - 1] = s
            /\ pc' = "returned" => r'.stack_top = r.stack_top
            /\ pc' # "returned" =>
                  /\ r'.stack_top = r.stack_top + 2 * (s + 1) + 1
                  /\ r'.work[r'.stack_top - 1] = s + 1]_vars

\* A record shorter than K has been returned because its group order is at
\* most t, and an accepted candidate of that size has been extended.
C4_Witness ==
    /\ pc = "returned"
    /\ r.t > 0
    /\ emitted[Len(emitted)].size < r.target_length
    /\ emitted[Len(emitted)].aut <= r.t
    /\ r.stat_can[emitted[Len(emitted)].size - 1]
         > r.stat_out[emitted[Len(emitted)].size - 1]

ChoiceBefore(a, b) == a[1] < b[1] \/ (a[1] = b[1] /\ a[2] < b[2])
\* Depth-first order of two paths of choices: at the first level at which
\* they differ, p makes the earlier choice.
PathBefore(p, q) ==
    \E l \in 1..Len(p) :
        /\ l <= Len(q)
        /\ \A m \in 1..(l - 1) : p[m] = q[m]
        /\ ChoiceBefore(p[l], q[l])
\* The run on the CNF of README.txt with prefix 3 4.
ReadmeRun == r.b = 2 /\ r.k = 2 /\ r.prefix[0] = 2 /\ r.prefix[1] = 3
False == TheBase.val[0]
True == TheBase.val[1]

SingleLevel ==
    /\ r.target_length = 1
    /\ r.t = 0
    /\ \A u \in ARange(TheBase.var), w \in ARange(TheBase.val) :
          edge_make(u, w) \notin TheBase.base

\* C8 (one level): a run with K = 1 and t = 0 emits exactly r records, each
\* of size 1 on the first prefix variable, with the values R[0], ...,
\* R[r-1] in this order.
C8_SingleLevel ==
    (pc = "done" /\ SingleLevel) =>
        /\ Len(emitted) = TheBase.r
        /\ \A i \in 1..Len(emitted) :
              /\ emitted[i].size = 1
              /\ emitted[i].vars = <<r.prefix[0]>>
              /\ emitted[i].vals = <<TheBase.val[i - 1]>>

\* A run with K = 1 on three values has ended with three records.
C8_Witness ==
    /\ pc = "done"
    /\ SingleLevel
    /\ TheBase.r = 3
    /\ Len(emitted) = 3

\* C9 (termination): every call of the reducer ends, with a record or with
\* 'no more'; the caller that keeps calling receives 'no more' in the end;
\* 'no more' is returned with an empty work stack and a record with a work
\* stack that is not empty.
C9_Termination ==
    /\ [](pc = "call" => <>(pc \in {"returned", "nomore"}))
    /\ <>(pc = "nomore")
    /\ [](pc = "nomore" => r.stack_top = 0)
    /\ [](pc = "returned" => r.stack_top > 0)

\* 'No more' has been returned after several records, and candidates were
\* rejected on the way.
C9_Witness ==
    /\ pc = "nomore"
    /\ r.stack_top = 0
    /\ Len(emitted) >= 3
    /\ \E l \in DOMAIN r.stat_gen : r.stat_can[l] < r.stat_gen[l]

\* The number of assignments of the records emitted before record i.
RECURSIVE SizesBefore(_)
SizesBefore(i) ==
    IF i <= 1 THEN 0 ELSE SizesBefore(i - 1) + emitted[i - 1].size
\* The literal of assignment k of a record: the CNF variable, negated when
\* its value is false.
RecordLiteral(rec, k) ==
    IF rec.vals[k] = False
    THEN -(TheBase.var_trans[rec.vars[k]] + 1)
    ELSE TheBase.var_trans[rec.vars[k]] + 1

\* C10 (CNF output): after a run with a CNF that emitted c records the
\* header declares nv + c variables and nc + (s_1 + ... + s_c) + 1 clauses;
\* the clauses of the CNF are followed by one clause (lit, -(nv + i)) for
\* every assignment of record i, in the order of the records, and by the
\* clause nv+1 ... nv+c; as many clauses are printed as declared.
C10_CnfOutput ==
    (pc = "done" /\ TheBase.have_cnf # 0) =>
        LET c == Len(emitted)
            nv == TheBase.nv
            nc == TheBase.nc
            total == SizesBefore(c + 1)
            out == output[1]
        IN  /\ Len(output) = 1
            /\ out.header = <<nv + c, nc + total + 1>>
            /\ Len(out.clauses) = out.header[2]
            /\ SubSeq(out.clauses, 1, nc) = TheBase.clauses
            /\ \A i \in 1..c : \A k \in 1..emitted[i].size :
                  out.clauses[nc + SizesBefore(i) + k]
                    = <<RecordLiteral(emitted[i], k), -(nv + i)>>
            /\ out.clauses[nc + total + 1] = [i \in 1..c |-> nv + i]

\* The output of the run on the README CNF has been written: 9 variables
\* and 10 clauses.
C10_Witness ==
    /\ pc = "done"
    /\ ReadmeRun
    /\ Len(output) = 1
    /\ output[1].header = <<9, 10>>
    /\ Len(emitted) = 3

\* The edges added to the base graph in G_l, the group Aut(G_l) and the
\* orbit of u under it.
LevelEdges(l) == {edge_make(r.prefix[i], TheBase.val[0]) : i \in Idx(l)}
LevelGroup(l) ==
    {g \in AutG0 : \A e \in LevelEdges(l) : edge_relabel(g, e) \in LevelEdges(l)}
LevelOrbit(l, u) == {g[u] : g \in LevelGroup(l)}
\* The levels of the prefix have been built.
LevelsBuilt == r.initialized = 1 /\ r.fault = ""

\* The permutation t of the vertices is an automorphism of G_l: it keeps
\* the colours and the edges.
LevelAutomorphism(t, l) ==
    /\ DOMAIN t = Idx(TheBase.n)
    /\ ARange(t) = Idx(TheBase.n)
    /\ \A u \in Idx(TheBase.n) : TheBase.colors[t[u]] = TheBase.colors[u]
    /\ graph_relabel(PrefixGraph(TheBase, r.prefix, l), t)
         = PrefixGraph(TheBase, r.prefix, l)

\* The traversal law at level l.
LevelLaw(l) ==
    \A orbit \in {LevelOrbit(l, r.prefix[l])} :
        /\ r.trav_sizes[l] = Cardinality(orbit)
        /\ \A j \in Idx(Cardinality(orbit)) :
              /\ LevelAutomorphism(r.traversals[l][j], l)
              /\ r.traversals[l][j][r.prefix[l]] \in orbit
              /\ Cardinality({u \in orbit :
                                 u < r.traversals[l][j][r.prefix[l]]}) = j
              /\ r.traversals[l][j][r.prefix[l]] = r.prefix[l]
                 => r.traversals[l][j] = Identity(TheBase.n)

\* C11 (traversal law): at every level l of the prefix the traversal has one
\* permutation for every vertex of the orbit of P[l] under Aut(G_l); the
\* j-th permutation is an automorphism of G_l that takes P[l] to the j-th
\* vertex of the orbit in increasing order, and the permutation of P[l]
\* itself is the identity.  traversal_prepare never reports a bad traversal.
\* Stated of every step: each level the step builds, and each level whose
\* prefix or traversal the step changes, obeys the law after the step.
C11_TraversalLaw ==
    [][/\ r'.fault # "ABORT: bad traversal"
       /\ r'.fault # "HANG: traversal"
       /\ LevelsBuilt' =>
             \A l \in Idx(r'.k) :
                 (\/ ~LevelsBuilt
                  \/ l \notin Idx(r.k)
                  \/ \E i \in Idx(l + 1) : r'.prefix[i] # r.prefix[i]
                  \/ r'.trav_sizes[l] # r.trav_sizes[l]
                  \/ r'.traversals[l] # r.traversals[l])
                 => LevelLaw(l)']_vars

\* A level below the first has an orbit of three or more vertices, and one
\* of its permutations is not a generator of the group of its graph.
C11_Witness ==
    /\ LevelsBuilt
    /\ \E l \in 1..(r.k - 1) :
          /\ r.trav_sizes[l] >= 3
          /\ \E j \in Idx(r.trav_sizes[l]) :
                /\ r.traversals[l][j] # Identity(TheBase.n)
                /\ \A i \in 1..Len(graph_aut_gen(graph_getcan(r.b,
                                     PrefixGraph(TheBase, r.prefix, l)))) :
                      graph_aut_gen(graph_getcan(r.b,
                          PrefixGraph(TheBase, r.prefix, l)))[i]
                      # r.traversals[l][j]

\* The automorphisms of the base graph extended by the pairs P, and the
\* vertices that are the least of their orbit under them.
PairGroup(P) == {g \in AutG0 : Image(g, P) = P}
OrbitMinima(A) == {u \in Idx(TheBase.n) : \A g \in A : g[u] >= u}
OrbitsOf(A) == {{g[u] : g \in A} : u \in Idx(TheBase.n)}
\* The bits set in the indicator ind.
Bits(ind) == {x \in DOMAIN ind : ind[x] # 0}
\* The call computes the seed minima of the base graph.
SeedsBase == pc = "call" /\ pc' = "loop"
\* The pass expands its candidate: it computes the seed minima of the next
\* level and pushes a frame.
SeedsCandidate ==
    /\ pc = "loop"
    /\ r.stack_top > 0
    /\ r'.fault = ""
    /\ r'.stack_top > r.stack_top

\* C12 (orbit minima): orbit_min_ind sets exactly one bit for every orbit of
\* Aut(G): the bit at nu(u) is set if and only if u is the least vertex of
\* its orbit, nu being the identity when no relabeling is given; the number
\* of bits set is the number of orbits and every other bit is 0.
C12_OrbitMin ==
    [][/\ SeedsBase =>
             /\ Bits(r'.seed_min[0]) = OrbitMinima(AutG0)
             /\ Cardinality(Bits(r'.seed_min[0])) = Cardinality(OrbitsOf(AutG0))
             /\ \A x \in Idx(TheBase.n) : r'.seed_min[0][x] \in {0, 1}
       /\ SeedsCandidate =>
             LET f == TopFrame(r)
                 nu == Inverse(r.traversals[f.lvl][f.current])
                 A == PairGroup(CandidatePairs)
                 ind == r'.seed_min[f.lvl + 1]
             IN  /\ \A u \in Idx(TheBase.n) :
                       ind[nu[u]] = 1 <=> u \in OrbitMinima(A)
                 /\ \A O \in OrbitsOf(A) :
                       Cardinality({u \in O : ind[nu[u]] # 0}) = 1
                 /\ Cardinality(Bits(ind)) = Cardinality(OrbitsOf(A))
                 /\ \A x \in Idx(TheBase.n) : ind[x] \in {0, 1}]_vars

\* The pairs of the accepted candidate that the frame f extends: those of
\* its variables other than the current one.
ParentPairs(f) ==
    {<<f.vars[i], TheBase.val[f.vals[i]]>> : i \in Idx(f.size) \ {f.current_idx}}

\* The seed minima of the level of the top frame, a level below the first,
\* were computed under a relabeling that matters: the bits set are not the
\* least vertices of the orbits of the relabeled candidate, and one orbit
\* has two or more vertices.
C12_Witness ==
    /\ pc = "loop"
    /\ r.stack_top > 0
    /\ TopFrame(r).lvl >= 1
    /\ Bits(r.seed_min[TopFrame(r).lvl])
         # OrbitMinima(PairGroup(ParentPairs(TopFrame(r))))
    /\ Cardinality(Bits(r.seed_min[TopFrame(r).lvl])) < TheBase.n

\* The frames on the work stack below position top.
RECURSIVE StackFrames(_)
StackFrames(top) ==
    IF top <= 0 THEN {}
    ELSE LET f == TopFrame([r EXCEPT !.stack_top = top])
         IN  {f} \cup StackFrames(f.below)
\* Frames are on the work stack of a run that has not failed.
FramesOnStack == r.fault = "" /\ r.initialized = 1 /\ r.stack_top > 0
\* Exactly one vertex of every orbit of the group A has its bit set in ind.
OneBitPerOrbit(A, ind) ==
    \A O \in OrbitsOf(A) : Cardinality(O \cap Bits(ind)) = 1

\* C13 as stated (seed-min law): while a frame of level l is on the work
\* stack, exactly one vertex of every orbit of Aut(G_l) has its seed_min_l
\* bit set, G_l being the base graph with the edges (P[i], R[0]), i < l.
C13_Stated ==
    FramesOnStack =>
        \A f \in StackFrames(r.stack_top) :
            OneBitPerOrbit(LevelGroup(f.lvl), r.seed_min[f.lvl])

\* C13 (seed-min law): while a frame of level l is on the work stack,
\* exactly one vertex of every orbit of Aut(H) has its seed_min_l bit set, H
\* being the base graph at level 0 and, at a level l > 0, the normalized
\* accepted candidate of size l that the frame extends.
C13_SeedMin ==
    FramesOnStack =>
        \A f \in StackFrames(r.stack_top) :
            /\ OneBitPerOrbit(PairGroup(ParentPairs(f)), r.seed_min[f.lvl])
            /\ Cardinality(ParentPairs(f)) = f.lvl

\* Three frames are on the stack, and the candidate that the top frame
\* extends has fewer automorphisms than the graph G_l of its level.
C13_Witness ==
    /\ FramesOnStack
    /\ Cardinality(StackFrames(r.stack_top)) >= 3
    /\ Cardinality(PairGroup(ParentPairs(TopFrame(r))))
         < Cardinality(LevelGroup(TopFrame(r).lvl))
    /\ Cardinality(PairGroup(ParentPairs(TopFrame(r)))) > 1

\* The variable vertices that are not among the first k of the prefix.
Eligible(k) == ARange(TheBase.var) \ {r.prefix[i] : i \in Idx(k)}
\* The eligible vertices whose bit is set in the traversal indicator of the
\* last level.
PreviousHits(k) ==
    IF k = 0 THEN {} ELSE {u \in Eligible(k) : r.trav_ind[k - 1][u] # 0}
\* The step extends the prefix by the vertex the selector returns.
Selects == r.initialized = 1 /\ r'.fault = "" /\ r'.k = r.k + 1

\* C14 (selector rule 1): when the prefix is extended at k > 0 and some
\* variable vertex that is not in the prefix has its bit set in the
\* traversal indicator of level k - 1, the selector returns the least such
\* vertex, whatever the orbits of the current graph are.
C14_PreviousTraversal ==
    [][(Selects /\ PreviousHits(r.k) # {})
         => r'.prefix[r.k] = SetMin(PreviousHits(r.k))]_vars

\* The run on the two triangles that chooses a prefix of two vertices has
\* chosen the second from the triangle of the first, where the selector
\* without the indicator returns a vertex of the other triangle, whose
\* orbit is longer.
C14_Witness ==
    /\ LevelsBuilt
    /\ r.b = 7 /\ r.target_length = 2 /\ r.k = 2
    /\ r.trav_ind[0][r.prefix[1]] # 0
    /\ orbit_select(graph_getcan(r.b, PrefixGraph(TheBase, r.prefix, 1)),
                    TheBase.v, TheBase.var, 1, r.prefix, NULL) # r.prefix[1]
    /\ Cardinality(LevelOrbit(1, r.prefix[1])) < Cardinality(LevelOrbit(1, 3))

\* The generators of Aut(G_k) that the labeler yields, the orbits of the
\* eligible vertices, and those that a generator makes good: it has a fixed
\* and a moved point in the orbit.
LevelGens(k) ==
    ARange(graph_aut_gen(graph_getcan(r.b, PrefixGraph(TheBase, r.prefix, k))))
EligibleOrbits(k) == {LevelOrbit(k, u) : u \in Eligible(k)}
GoodOrbit(O, gens) ==
    \E a \in gens : (\E z \in O : a[z] = z) /\ (\E z \in O : a[z] # z)
GoodOrbits(k) == {O \in EligibleOrbits(k) : GoodOrbit(O, LevelGens(k))}
\* The longest orbit of the set S of orbits, the one of the least vertex
\* when there are several (the first or the last one scanned).
LongestFirst(S) ==
    CHOOSE O \in S : \A Q \in S :
        \/ Cardinality(O) > Cardinality(Q)
        \/ Cardinality(O) = Cardinality(Q) /\ SetMin(O) <= SetMin(Q)
LongestLast(S) ==
    CHOOSE O \in S : \A Q \in S :
        \/ Cardinality(O) > Cardinality(Q)
        \/ Cardinality(O) = Cardinality(Q) /\ SetMin(O) >= SetMin(Q)

\* C15 (selector rule 2): when the prefix is extended, rule 1 does not
\* apply and some orbit of eligible vertices is good, the selector returns
\* the least vertex of the longest good orbit, and of the one scanned first
\* (the one with the least vertex) when several good orbits are longest.
C15_GoodOrbit ==
    [][(Selects /\ PreviousHits(r.k) = {} /\ GoodOrbits(r.k) # {})
         => r'.prefix[r.k] = SetMin(LongestFirst(GoodOrbits(r.k)))]_vars

\* The selector has chosen the first vertex of the prefix from the cycle of
\* four, a good orbit, although the orbit of vertex 0, which is scanned
\* first, is good as well.
C15_Witness ==
    /\ LevelsBuilt
    /\ r.b = 10 /\ r.k = 1
    /\ r.prefix[0] = 3
    /\ Cardinality(LevelOrbit(0, 3)) = 4
    /\ \E a \in LevelGens(0) : a[0] = 0 /\ a[1] # 1
    /\ \E a \in LevelGens(0) : \E z \in LevelOrbit(0, 3) : a[3] = 3 /\ a[z] # z

\* C16 as stated (selector rule 3): when the prefix is extended, rule 1
\* does not apply and no orbit of eligible vertices is good, the selector
\* returns the least variable vertex that is not in the prefix.
C16_Stated ==
    [][(Selects /\ PreviousHits(r.k) = {} /\ GoodOrbits(r.k) = {})
         => r'.prefix[r.k] = SetMin(Eligible(r.k))]_vars

\* C16 (selector rule 3): when the prefix is extended, rule 1 does not
\* apply and no orbit of eligible vertices is good, the selector returns
\* the least vertex of the longest orbit of eligible vertices, of the one
\* scanned last when several are longest, if that orbit has two or more
\* vertices; when every such orbit is a single vertex it returns the least
\* variable vertex that is not in the prefix.
C16_Fallback ==
    [][(Selects /\ PreviousHits(r.k) = {} /\ GoodOrbits(r.k) = {})
         => r'.prefix[r.k] =
               IF Cardinality(LongestLast(EligibleOrbits(r.k))) >= 2
               THEN SetMin(LongestLast(EligibleOrbits(r.k)))
               ELSE SetMin(Eligible(r.k))]_vars

\* The selector has chosen the first vertex of the prefix on the path: no
\* orbit is good, and vertex 1 of the orbit scanned last was returned, not
\* vertex 0.
C16_Witness ==
    /\ LevelsBuilt
    /\ r.b = 5 /\ r.k = 1
    /\ GoodOrbits(0) = {}
    /\ Eligible(0) = {0, 1, 2, 3}
    /\ r.prefix[0] = 1
    /\ LevelOrbit(0, 0) = {0, 3}

(***************************************************************************)
(* aut_order_trunc on its own.  The group orders of the graphs above are   *)
(* far below the cut-off, so the function is applied to index sequences of *)
(* larger groups: r is the graph, of which only the index sequence is      *)
(* read, and output receives the value returned.  The source multiplies in *)
(* arbitrary precision; the sequences are those whose product is below     *)
(* 2^31.                                                                   *)
(***************************************************************************)
MaxIdxLen == 3
\* Stabilizer indices: every index is 2 or more.
IdxValues == {2, 3, 1000, 46340}
\* The product of s[i..], or -1 when it is 2^31 or more.
RECURSIVE BoundedProduct(_, _)
BoundedProduct(s, i) ==
    IF i > Len(s) THEN 1
    ELSE The({IF rest = -1 \/ s[i] > 2147483647 \div rest THEN -1
              ELSE s[i] * rest
              : rest \in {BoundedProduct(s, i + 1)}})
IdxSeqs ==
    {s \in UNION {[1..len -> IdxValues] : len \in 0..MaxIdxLen} :
        BoundedProduct(s, 1) # -1}

TruncInit ==
    /\ \E s \in IdxSeqs : r = [aut_idx |-> s]
    /\ labeler = "least"
    /\ pc = "trunc"
    /\ emitted = << >>
    /\ paths = << >>
    /\ count = 0
    /\ conjbuf = << >>
    /\ output = << >>
\* The call aut_order_trunc(g) of line 1545.
Trunc ==
    /\ pc = "trunc"
    /\ output' = <<aut_order_trunc(r)>>
    /\ pc' = "done"
    /\ UNCHANGED <<r, labeler, emitted, paths, count, conjbuf>>
TruncNext == Trunc
TruncSpec == TruncInit /\ [][TruncNext]_vars

\* The order of the group with the index sequence of r.
GroupOrder == BoundedProduct(r.aut_idx, 1)

BadInputs ==
    {In(8, <<0, 1>>, 0, 0),     \* vertex 3 of the orbit {0, 3} is no variable
     In(8, << >>, 2, 0),
     In(9, <<0>>, 0, 0),        \* the value vertices are exchanged
     In(9, <<1, 0>>, 3, 0),
     In(9, << >>, 1, 0),
     In(11, <<0>>, 0, 0),       \* vertex 0 is no variable vertex
     In(11, <<1>>, 2, 0),
     InMem(11, <<2>>, 0, 0, -1),     \* var_trans[2] was never written
     InMem(11, <<2>>, 0, 0, Uninit),
     InMem(11, <<4>>, 0, 0, -1),     \* a value vertex; var_trans[4] likewise
     InMem(11, <<4>>, 0, 0, Uninit),
     In(2, <<6>>, 0, 0),        \* CNF: vertex 6 stands for a negative literal
     In(3, <<0, 6>>, 0, 0),     \* CNF and graph: vertex 6 is a value vertex
     In(5, <<0, 1, 0>>, 0, 0),  \* a vertex is repeated
     In(5, <<0, 6>>, 0, 0),     \* the graph has the vertices 0..5
     In(5, <<0, 1>>, 1, 0),     \* two vertices given, target length 1
     In(1, << >>, 2, 0),        \* K = 2 with one variable vertex
     In(6, << >>, 4, 0),        \* K = 4 with three variable vertices
     In(6, << >>, 4, 1000000000),
     In(5, <<3, 1, 0, 2>>, 5, 0)}    \* every variable vertex given, K = 5
ValidationInit ==
    /\ \E in \in Inputs \cup BadInputs : r = reducer_parse(in)
    /\ labeler \in Labelers
    /\ pc = IF r.fault # "" THEN "exit" ELSE "init"
    /\ emitted = << >>
    /\ paths = << >>
    /\ count = 0
    /\ conjbuf = << >>
    /\ output = << >>
ValidationSpec == ValidationInit /\ [][Next]_vars

\* The orbit of u under Aut(G0).
BaseOrbit(u) == {g[u] : g \in AutG0}
\* V is a union of orbits of Aut(G0); every value vertex is fixed by Aut(G0).
VarsUnionOfOrbits ==
    \A u \in ARange(TheBase.var) : BaseOrbit(u) \subseteq ARange(TheBase.var)
ValuesFixed == \A w \in ARange(TheBase.val) : BaseOrbit(w) = {w}
BaseErrors ==
    {"ERROR: variable list is not a union of orbits of base graph",
     "ERROR: value vertex is not fixed"}
\* Level 0 has not been built yet: the program has not initialized the
\* reducer, or the prefix is empty and the reducer has not been called.
BeforeLevel0 ==
    \/ pc = "init"
    \/ pc = "call" /\ r.k = 0 /\ r.stack_top = 0 /\ count = 0

\* C18 (validation at level 0): when V is not a union of orbits of Aut(G0),
\* or a value vertex is not fixed by Aut(G0), building level 0 ends the
\* program with an input error, the first for V and the second for the
\* value vertices, before a traversal is built and before a record is
\* emitted; when V is a union of orbits and every value vertex is fixed,
\* neither error is raised.
C18_Validation ==
    /\ ~(VarsUnionOfOrbits /\ ValuesFixed) =>
          \/ BeforeLevel0
          \/ /\ pc = "exit"
             /\ r.fault = IF ~VarsUnionOfOrbits
                          THEN "ERROR: variable list is not a union of orbits of base graph"
                          ELSE "ERROR: value vertex is not fixed"
             /\ r.traversals = << >>
             /\ r.trav_sizes = << >>
             /\ emitted = << >>
             /\ output = << >>
    /\ (VarsUnionOfOrbits /\ ValuesFixed) => r.fault \notin BaseErrors

\* The reducer was called with an empty prefix on a base graph whose value
\* vertices are exchanged by an automorphism: the selector has returned a
\* vertex, and building level 0 has ended the program.
C18_Witness ==
    /\ pc = "exit"
    /\ VarsUnionOfOrbits
    /\ ~ValuesFixed
    /\ r.initialized = 1
    /\ r.k = 0
    /\ r.fault = "ERROR: value vertex is not fixed"

\* The run on the path with an empty prefix, K = 4 and t = 10^9.
ThresholdRun == r.b = 5 /\ r.target_length = 4 /\ r.t = 1000000000
\* The first two records: one vertex with the value false, then the same
\* vertex with the value true.
FirstTwoRecords ==
    /\ Len(emitted) >= 1 =>
          emitted[1].size = 1 /\ emitted[1].vals = <<False>>
    /\ Len(emitted) >= 2 =>
          /\ emitted[2].size = 1
          /\ emitted[2].vars = emitted[1].vars
          /\ emitted[2].vals = <<True>>

\* C19 as stated (threshold scenario): the run emits a vertex with the
\* value false, then the same vertex with the value true, and goes on to
\* expand and emit until assignments of size K = 4 are emitted.
C19_Stated ==
    ThresholdRun =>
        /\ FirstTwoRecords
        /\ pc = "done" =>
              /\ Len(emitted) > 2
              /\ \E i \in 1..Len(emitted) : emitted[i].size = 4

\* C19 (threshold scenario): the run emits a vertex with the value false,
\* then the same vertex with the value true, and ends after these two
\* records: a record that is emitted is not expanded, so the prefix stays at
\* one vertex and no longer assignment is generated.
C19_Threshold ==
    ThresholdRun =>
        /\ FirstTwoRecords
        /\ Len(emitted) <= 2
        /\ r.k <= 1
        /\ pc = "done" => Len(emitted) = 2 /\ r.stat_gen = (0 :> 2)

\* The run has ended with its two records, both with the identity as the
\* only automorphism.
C19_Witness ==
    /\ ThresholdRun
    /\ pc = "done"
    /\ Len(emitted) = 2
    /\ emitted[1].aut = 1 /\ emitted[2].aut = 1
    /\ r.prefix[0] \in {1, 2}

\* C20 (prefix invariant): at every point of a run that has not failed the
\* prefix P[0..k-1] consists of pairwise distinct vertices, and all of them
\* are variable vertices.
C20_Stated ==
    r.fault = "" =>
        /\ \A i, j \in Idx(r.k) : i # j => r.prefix[i] # r.prefix[j]
        /\ \A i \in Idx(r.k) : r.prefix[i] \in ARange(TheBase.var)

\* Parsing has ended and nothing else has run: the reducer is as
\* reducer_parse has left it.
AfterParse == r.initialized = 0
ParseSucceeded == r.fault = ""
\* What the claim asks of a supplied prefix: its elements are in range,
\* pairwise distinct and variable vertices, and it is not longer than the
\* target length.
PrefixInRange == \A i \in Idx(r.k) : r.prefix[i] \in Idx(TheBase.n)
PrefixDistinct == \A i, j \in Idx(r.k) : i # j => r.prefix[i] # r.prefix[j]
PrefixInV == \A i \in Idx(r.k) : r.prefix[i] \in ARange(TheBase.var)
PrefixFits == r.k <= r.target_length

\* C21 (prefix acceptance at parse time) as stated: when parsing succeeds
\* every element of the supplied prefix is a declared variable vertex, and a
\* prefix that is out of range, repeats a vertex, names a vertex outside V
\* or is longer than the target length is rejected with an input error,
\* with a CNF and without one.
C21_Stated ==
    AfterParse =>
        /\ ParseSucceeded => PrefixInV
        /\ ~(PrefixInRange /\ PrefixDistinct /\ PrefixInV /\ PrefixFits)
           => r.fault = "ERROR: parse"

\* The vertex the selector returns at level k when no previous traversal
\* indicator is given or none of its vertices is eligible: the least vertex
\* of the longest good orbit, or else of the longest orbit of two or more
\* eligible vertices, or else the least eligible vertex.
RuleChoice(k) ==
    IF GoodOrbits(k) # {} THEN SetMin(LongestFirst(GoodOrbits(k)))
    ELSE IF Cardinality(LongestLast(EligibleOrbits(k))) >= 2
    THEN SetMin(LongestLast(EligibleOrbits(k)))
    ELSE SetMin(Eligible(k))
\* A call that finds the work stack empty and ends without a failure.
FirstCall ==
    /\ pc = "call"
    /\ r.stack_top = 0
    /\ r.target_length # 0
    /\ r'.fault = ""

\* C22 (initialization): a call that finds the work stack empty chooses
\* P[0] with the selector on G0, without a traversal indicator, and builds
\* level 0 when the prefix is empty, and leaves a given prefix as it is;
\* then the stack holds one frame of size 1, whose variable is the one
\* vertex of the orbit of P[0] under Aut(G0) that has its seed_min_0 bit
\* set, the least vertex of that orbit, with the value 0; the counters of
\* all levels are zero.
C22_Initialization ==
    [][FirstCall =>
          /\ r.k = 0 => /\ r'.k = 1
                        /\ r'.prefix[0] = RuleChoice(0)
                        /\ LevelLaw(0)'
          /\ r.k > 0 => r'.k = r.k /\ r'.prefix = r.prefix
          /\ r'.stack_top = 3
          /\ r'.work = Arr(<<SetMin(BaseOrbit(r'.prefix[0])), 0, 1>>)
          /\ BaseOrbit(r'.prefix[0]) \cap Bits(r'.seed_min[0])
               = {SetMin(BaseOrbit(r'.prefix[0]))}
          /\ \A i \in Idx(r'.k) :
                /\ r'.stat_gen[i] = 0
                /\ r'.stat_can[i] = 0
                /\ r'.stat_out[i] = 0
          /\ DOMAIN r'.stat_gen = Idx(r'.k)]_vars

\* The first call has returned to the loop with a first frame whose
\* variable is not the first vertex of the given prefix but the least
\* vertex of its orbit.
C22_Witness ==
    /\ pc = "loop"
    /\ r.fault = ""
    /\ r.stack_top = 3
    /\ count = 0
    /\ r.stat_gen[0] = 0
    /\ r.work[0] # r.prefix[0]
    /\ r.work[0] = SetMin(BaseOrbit(r.prefix[0]))

\* The frame of the reducer rd that ends below position top.
FrameAt(rd, top) == TopFrame([rd EXCEPT !.stack_top = top])
\* The traversal positions of level l whose vertex has its seed_min bit set
\* in the reducer rd.
MarkedPositions(rd, l) ==
    {j \in Idx(rd.trav_sizes[l]) :
        rd.seed_min[l][rd.traversals[l][j][rd.prefix[l]]] # 0}
\* A pass of the loop that ends without a failure.
Pass == pc = "loop" /\ r.stack_top > 0 /\ r'.fault = ""
\* The frame g is the frame f with the variable x and the value c at the
\* position of the current variable of f.
SameFrameWith(g, f, x, c) ==
    /\ g.size = f.size
    /\ g.below = f.below
    /\ g.vars = SetAt(f.vars, f.current_idx, x)
    /\ g.vals = SetAt(f.vals, f.current_idx, c)

\* C23 (candidate enumeration per frame): a frame of level l starts at the
\* first marked traversal position with the value 0, a marked position being
\* a j with the seed_min_l bit of tau_j(P[l]) set; a pass that finds a value
\* c < r in the top frame processes the candidate (tau_j(P[l]), c) and
\* leaves the frame on the stack with the value c + 1; a pass that finds the
\* value r processes no candidate and puts the next marked position with
\* the value 0 in the frame, or drops the frame when there is none.  So
\* the candidates of a frame are the pairs of a marked position and a value
\* below r, each once, by increasing position and then value.
C23_Enumeration ==
    [][Pass =>
          \A f \in {TopFrame(r)} :
              /\ f.current \in MarkedPositions(r, f.lvl)
              /\ f.current_idx = f.lvl
              /\ f.current_val \in 0..TheBase.r
              /\ f.current_val < TheBase.r =>
                    /\ r'.stat_gen[f.lvl] = r.stat_gen[f.lvl] + 1
                    /\ r'.stack_top >= r.stack_top
                    /\ SameFrameWith(FrameAt(r', r.stack_top), f,
                                     f.vars[f.current_idx], f.current_val + 1)
              /\ f.current_val = TheBase.r =>
                    /\ r'.stat_gen = r.stat_gen
                    /\ \A later \in {{j \in MarkedPositions(r, f.lvl) :
                                        j > f.current}} :
                          IF later = {}
                          THEN r'.stack_top = f.below
                          ELSE /\ r'.stack_top = r.stack_top
                               /\ SameFrameWith(
                                     FrameAt(r', r.stack_top), f,
                                     r.traversals[f.lvl][SetMin(later)]
                                                 [r.prefix[f.lvl]], 0)
              /\ r'.stack_top > r.stack_top =>
                    \A g \in {TopFrame(r')} :
                        /\ g.below = r.stack_top
                        /\ g.size = f.size + 1
                        /\ g.current = SetMin(MarkedPositions(r', g.lvl))
                        /\ g.current_val = 0]_vars

\* The top frame has been moved on to a marked position beyond a position
\* that is not marked, and the first value of that position is its next
\* candidate.
C23_Witness ==
    /\ pc = "loop"
    /\ r.fault = ""
    /\ r.stack_top > 0
    /\ TopFrame(r).current_val = 0
    /\ \E j \in Idx(TopFrame(r).current) :
          /\ j \notin MarkedPositions(r, TopFrame(r).lvl)
          /\ \E i \in Idx(j) : i \in MarkedPositions(r, TopFrame(r).lvl)

(***************************************************************************)
(* traversal_prepare on its own, sweep by sweep.  In the program the       *)
(* labeler yields generators of the group whose orbits it reports; here    *)
(* the function is applied to every graph structure of MaxTravOrder        *)
(* vertices: an orbit array with one orbit of any vertices, any sequence   *)
(* of at most MaxGens different generators (exchanges of two neighbouring  *)
(* vertices and the two rotations), any root.  r holds the graph, the root, the list of the orbit and the   *)
(* arrays ind and t; r.sweeps counts the passes of the inner while loop,   *)
(* up to MaxSweeps; output receives the length and the traversal returned. *)
(***************************************************************************)
MaxTravOrder == 3
MaxGens == 2
MaxSweeps == MaxTravOrder + 1
\* The generators tried: the exchanges of u and u + 1, and the rotations
\* of 0..n-1 by one place up and down.
TravPerms(n) ==
    {Table([u \in Idx(n) |-> IF u = a THEN a + 1 ELSE IF u = a + 1 THEN a ELSE u])
        : a \in Idx(n - 1)}
    \cup {Table([u \in Idx(n) |-> (u + 1) % n]),
          Table([u \in Idx(n) |-> (u + n - 1) % n])}
\* The orbit arrays: every vertex with the least vertex of its orbit; the
\* vertices of L are one orbit and every other vertex is fixed.
TravOrbs(n) ==
    {Table([u \in Idx(n) |-> IF u \in L THEN SetMin(L) ELSE u])
        : L \in (SUBSET Idx(n)) \ {{}}}
\* The generator sequences: no generator is yielded twice.
TravGens(n) ==
    {gens \in UNION {[1..len -> TravPerms(n)] : len \in 0..MaxGens} :
        \A i, j \in 1..Len(gens) : i # j => gens[i] # gens[j]}
TravGraphs ==
    {[order |-> MaxTravOrder, orb |-> c, aut_gen |-> gens] :
        c \in TravOrbs(MaxTravOrder), gens \in TravGens(MaxTravOrder)}
\* The list of traversal_prepare: the orbit of the root, sorted.
TravList(root, G) ==
    Arr(SortedSeq({i \in Idx(graph_order(G)) : graph_same_orbit(G, i, root) = 1}))

TravInit ==
    /\ \E G \in TravGraphs : \E root \in Idx(MaxTravOrder) :
          r = [G |-> G, root |-> root, list |-> TravList(root, G),
               st |-> TravStart(root, TravList(root, G), graph_order(G)),
               sweeps |-> 0]
    /\ labeler = "least"
    /\ pc = "trav"
    /\ emitted = << >>
    /\ paths = << >>
    /\ count = 0
    /\ conjbuf = << >>
    /\ output = << >>
\* One pass of the outer loop that finds a vertex of the list that is not
\* done (lines 450-472): the generators are swept once.
Sweep ==
    /\ pc = "trav"
    /\ ~TravDone(r.st, r.list)
    /\ r' = [r EXCEPT
               !.st = TravSweep(r.st, graph_aut_gen(r.G), r.list,
                                graph_order(r.G)),
               !.sweeps = IF @ < MaxSweeps THEN @ + 1 ELSE @]
    /\ UNCHANGED <<labeler, pc, emitted, paths, count, conjbuf, output>>
\* The pass that finds every vertex done, and the validation after the
\* loop (lines 451-459 and 474-481).
Validate ==
    /\ pc = "trav"
    /\ TravDone(r.st, r.list)
    /\ pc' = IF \E j \in DOMAIN r.list : r.st.t[j][r.root] # r.list[j]
             THEN "abort" ELSE "done"
    /\ output' = <<[len |-> ALen(r.list), trav |-> r.st.t]>>
    /\ UNCHANGED <<r, labeler, emitted, paths, count, conjbuf>>
TravNext == Sweep \/ Validate
TravSpec == TravInit /\ [][TravNext]_vars
\* A sweep can be taken and changes the state: it is counted, or it marks a
\* vertex.
SweepEnabled ==
    /\ pc = "trav"
    /\ ~TravDone(r.st, r.list)
    /\ \/ r.sweeps < MaxSweeps
       \/ TravSweep(r.st, graph_aut_gen(r.G), r.list, graph_order(r.G)) # r.st
\* The loop goes on: no pass is postponed for ever.  This is weak fairness
\* of both actions; for Sweep it is written out, with the condition under
\* which the action is enabled.
TravFairSpec ==
    /\ TravSpec
    /\ ([]<>~SweepEnabled \/ []<><<Sweep>>_vars)
    /\ WF_vars(Validate)

\* The vertices that products of the generators take a vertex of S to.
RECURSIVE Reached(_, _)
Reached(S, gens) ==
    IF \A i \in 1..Len(gens) : \A u \in S : gens[i][u] \in S THEN S
    ELSE Reached(S \cup {gens[i][u] : i \in 1..Len(gens), u \in S}, gens)
\* The generators cannot reach every vertex of the orbit of the root.
CannotCover == ~(ARange(r.list) \subseteq Reached({r.root}, graph_aut_gen(r.G)))

\* C24 (failure mode of the traversal builder) as stated: when the
\* generators cannot reach every vertex of the orbit of the root, the
\* builder ends by aborting with a fatal error.
C24_Stated == (pc = "trav" /\ CannotCover) ~> (pc = "abort")

\* The generators generate a group whose orbit of the root is the listed
\* orbit.
ExactOrbit == Reached({r.root}, graph_aut_gen(r.G)) = ARange(r.list)
\* The vertices of the list that are done.
DoneSet(st) == {j \in DOMAIN r.list : st.ind[r.list[j]] < 0}
\* Row j of the traversal is a permutation that takes the root to the j-th
\* vertex of the list.
RowFilled(t, j) ==
    /\ ARange(t[j]) = Idx(graph_order(r.G))
    /\ t[j][r.root] = r.list[j]

\* C25 (termination of the traversal builder): when the generators
\* generate a group whose orbit of the root is exactly the listed orbit,
\* every sweep over the generators marks at least one further vertex of
\* the orbit as done, so the builder makes at most (orbit size - 1) sweeps
\* and then ends, with every vertex of the orbit done and every row of the
\* traversal filled.
C25_Termination ==
    /\ [][(ExactOrbit /\ r'.st # r.st) =>
             /\ DoneSet(r.st) \subseteq DoneSet(r'.st)
             /\ DoneSet(r.st) # DoneSet(r'.st)]_vars
    /\ [][(ExactOrbit /\ r'.sweeps # r.sweeps) => r'.st # r.st]_vars
    /\ [](ExactOrbit => r.sweeps <= ALen(r.list) - 1)
    /\ ExactOrbit ~> (pc = "done")
    /\ []((ExactOrbit /\ pc = "done") =>
             /\ DoneSet(r.st) = DOMAIN r.list
             /\ output[1].len = ALen(r.list)
             /\ \A j \in DOMAIN r.list : RowFilled(output[1].trav, j))

\* The builder has ended after two sweeps on an orbit of three vertices:
\* the first sweep could reach only one of the two other vertices.
C25_Witness ==
    /\ pc = "done"
    /\ ExactOrbit
    /\ ALen(r.list) = 3
    /\ r.sweeps = 2


(***************************************************************************)
(* Normalization of accepted candidates.                                   *)
(***************************************************************************)
\* The candidate on top of the stack, position by position: the variable
\* and the index of the value that the pass gives it.
CandidateAt(f, i) ==
    <<f.vars[i], IF i # f.current_idx THEN f.vals[i] ELSE f.current_val>>
\* The value a record holds for the value index x: the value vertex in a
\* record that is returned, the index itself in one that is expanded.
RecordValue(returned, x) == IF returned THEN TheBase.val[x] ELSE x

\* C26 (normalization): the record that a pass writes for an accepted
\* candidate of size s, returned or expanded, is the image of the popped
\* frame under nu, the inverse of the traversal element of the current
\* variable: position by position the variable is the image under nu of the
\* variable of the frame and carries the value of that variable; the
\* variable at position s-1 is the prefix element p_{s-1}, and the set of
\* the variables is exactly {p_0, ..., p_{s-1}}.
C26_Normalization ==
    [][Accepts =>
        \A f \in {TopFrame(r)} :
        \A nu \in {Inverse(r.traversals[f.lvl][f.current])} :
        \A rec \in {Record(r'.scratch)} :
            /\ rec.size = f.size
            /\ \A i \in Idx(f.size) :
                  /\ rec.vars[i + 1] = nu[CandidateAt(f, i)[1]]
                  /\ rec.vals[i + 1]
                       = RecordValue(pc' = "returned", CandidateAt(f, i)[2])
            /\ rec.vars[f.size] = r'.prefix[f.size - 1]
            /\ {rec.vars[i] : i \in 1..rec.size}
                 = {r'.prefix[i] : i \in Idx(f.size)}
            /\ \A i \in Idx(f.size) : r'.prefix[i] = r.prefix[i]]_vars

\* A record of three variables has been returned that normalization
\* changed: nu was not the identity, and the variables of the record are
\* not the prefix in its order.
C26_Witness ==
    /\ pc = "returned"
    /\ emitted[Len(emitted)].size >= 3
    /\ \E i \in 1..emitted[Len(emitted)].size - 1 :
          emitted[Len(emitted)].vars[i] # r.prefix[i - 1]
    /\ \E i \in 1..emitted[Len(emitted)].size :
          emitted[Len(emitted)].vals[i] # emitted[Len(emitted)].vals[1]


(***************************************************************************)
(* The frames of the work stack and the orbits of the prefix elements.     *)
(***************************************************************************)
\* C27 as stated (frame invariant): in every frame on the work stack at
\* level l, each vars[i] with 0 <= i <= l is a vertex in the orbit of P[i]
\* under Aut(G_i).
C27_Stated ==
    FramesOnStack =>
        \A f \in StackFrames(r.stack_top) :
            \A i \in Idx(f.size) : f.vars[i] \in LevelOrbit(i, r.prefix[i])


\* C27 (frame invariant): in every frame on the work stack at level l,
\* vars[l] is a vertex in the orbit of P[l] under Aut(G_l), and the
\* variables vars[0..l-1] are the prefix elements P[0..l-1] in some order:
\* they are the normalized variables of the accepted candidate that the
\* frame extends.
C27_FrameInvariant ==
    FramesOnStack =>
        \A f \in StackFrames(r.stack_top) :
            /\ f.vars[f.lvl] \in LevelOrbit(f.lvl, r.prefix[f.lvl])
            /\ {f.vars[i] : i \in Idx(f.lvl)} = {r.prefix[i] : i \in Idx(f.lvl)}
            /\ Cardinality({f.vars[i] : i \in Idx(f.size)}) = f.size

\* A frame of three or more variables is on the stack whose last variable
\* is not the prefix element of its level, and one of whose earlier
\* variables is outside the orbit of the prefix element of its position.
C27_Witness ==
    /\ FramesOnStack
    /\ \E f \in StackFrames(r.stack_top) :
          /\ f.size >= 3
          /\ f.vars[f.lvl] # r.prefix[f.lvl]
          /\ \E i \in Idx(f.lvl) : f.vars[i] \notin LevelOrbit(i, r.prefix[i])


(***************************************************************************)
(* The prefix over the run.                                                *)
(***************************************************************************)
\* The prefix elements below position m are the same after the step.
PrefixKept(m) == \A i \in Idx(m) : r'.prefix[i] = r.prefix[i]

\* C28 (the prefix is append-only): no step of the run makes the prefix
\* shorter, a step makes it longer by at most one element, and an element
\* P[i] with i < k is never changed; initialization, which rebuilds the
\* levels of a prefix that was given, leaves k and every prefix element as
\* they were.
C28_AppendOnly ==
    [][/\ r'.k >= r.k
       /\ r'.k <= r.k + 1
       /\ PrefixKept(r.k)
       /\ pc = "init" => r'.k = r.k /\ r'.prefix = r.prefix]_vars

\* The run on the two triangles whose prefix was given as the one vertex 4
\* with K = 3: initialization has rebuilt the level of that element, and
\* the run has appended two elements after it.
C28_Witness ==
    /\ r.fault = ""
    /\ r.initialized = 1
    /\ r.b = 7
    /\ r.target_length = 3
    /\ r.prefix[0] = 4
    /\ r.k = 3


(***************************************************************************)
(* The last prefix graph.                                                  *)
(***************************************************************************)
\* G0 with exactly the edges (P[j], R[0]), j < m, added: the edges are new
\* and there are m of them.
BaseWithLevelEdges(m) == TheBase.base \cup LevelEdges(m)
ExactlyLevelEdges(g, m) ==
    /\ g = BaseWithLevelEdges(m)
    /\ Cardinality(g) = Cardinality(TheBase.base) + m
\* The step appends an element to the prefix.
Expands == r.initialized = 1 /\ r'.fault = "" /\ r'.k = r.k + 1

\* C29 (last prefix graph): whenever the prefix has k >= 1 elements, and so
\* whenever the selector is called for an expansion, the last prefix graph
\* is G0 with exactly the edges (P[j], R[0]), j < k, added; the expansion
\* at level k replaces it by G0 with the edges (P[j], R[0]), j <= k, the
\* graph it was given being used up.
C29_LastPrefixGraph ==
    /\ []((LevelsBuilt /\ r.k >= 1) => ExactlyLevelEdges(r.last_prefix_g, r.k))
    /\ [][Expands =>
            /\ r.k >= 1 => ExactlyLevelEdges(r.last_prefix_g, r.k)
            /\ ExactlyLevelEdges(r.last_prefix_g, r.k)'
            /\ r'.last_prefix_g # r.last_prefix_g
            /\ r'.last_prefix_g
                 = graph_add_edge(BaseWithLevelEdges(r.k),
                                  r'.prefix[r.k], TheBase.val[0])]_vars

\* The run on the path with no prefix given: the selector has been called
\* three times, and the last prefix graph has three edges more than the
\* base graph.
C29_Witness ==
    /\ LevelsBuilt
    /\ r.b = 5
    /\ r.target_length = 4
    /\ r.k = 3
    /\ r.stack_top > 0
    /\ Cardinality(r.last_prefix_g) = Cardinality(TheBase.base) + 3


(***************************************************************************)
(* Growth of the arrays of the reducer during an expansion.                *)
(***************************************************************************)
\* The pass of the loop extends the prefix and the arrays are enlarged.
Grows ==
    /\ pc = "loop"
    /\ r.stack_top > 0
    /\ r'.fault = ""
    /\ r'.prefix_capacity # r.prefix_capacity
\* The position in the work stack of the value of the current variable of
\* the frame f on top.
CurrentValueAt(f) == r.stack_top - 1 - f.size + f.current_idx
\* The arrays of level l are the same after the step.
LevelKept(l) ==
    /\ r'.orbits[l] = r.orbits[l]
    /\ r'.trav_sizes[l] = r.trav_sizes[l]
    /\ r'.trav_ind[l] = r.trav_ind[l]
    /\ r'.traversals[l] = r.traversals[l]
    /\ r'.seed_min[l] = r.seed_min[l]

\* C30 (growth of the arrays): a pass that enlarges the arrays, from the
\* prefix capacity c to 2c+1, keeps every frame below the top of the stack
\* (the popped frame with the next value of its current variable), the
\* scratch record that is being expanded, the prefix, and the arrays and
\* counters of the levels that exist (the pass counts its own candidate at
\* the level of the frame); the frame pushed is read from the scratch
\* record, and after the pass the frame below it is interpreted as before.
C30_Growth ==
    [][Grows =>
        \A f \in {TopFrame(r)} :
        \A nu \in {Inverse(r.traversals[f.lvl][f.current])} :
            /\ r'.prefix_capacity = 2 * r.prefix_capacity + 1
            /\ \A i \in Idx(r.stack_top) :
                  r'.work[i] = IF i = CurrentValueAt(f) THEN r.work[i] + 1
                               ELSE r.work[i]
            /\ r'.scratch[0] = f.size
            /\ \A i \in Idx(f.size) :
                  /\ r'.scratch[1 + i] = nu[CandidateAt(f, i)[1]]
                  /\ r'.scratch[1 + f.size + i] = CandidateAt(f, i)[2]
                  /\ r'.work[r.stack_top + i] = r'.scratch[1 + i]
                  /\ r'.work[r.stack_top + f.size + 1 + i]
                       = r'.scratch[1 + f.size + i]
            /\ r'.scratch[2 * f.size + 1] = TruncatedOrder(CandidatePairs)
            /\ PrefixKept(r.k)
            /\ \A l \in Idx(r.k) :
                  /\ LevelKept(l)
                  /\ r'.stat_out[l] = r.stat_out[l]
                  /\ r'.stat_gen[l]
                       = r.stat_gen[l] + (IF l = f.lvl THEN 1 ELSE 0)
                  /\ r'.stat_can[l]
                       = r.stat_can[l] + (IF l = f.lvl THEN 1 ELSE 0)
            /\ TopFrame([r' EXCEPT !.stack_top = r.stack_top])
                 = [f EXCEPT !.vals = SetAt(f.vals, f.current_idx,
                                            f.current_val + 1),
                             !.current_val = f.current_val + 1]]_vars

\* The run on the path with no prefix given: the arrays were enlarged from
\* capacity 3 to capacity 7 by the pass that appended the third prefix
\* element, with two frames on the stack, and a third frame was pushed.
C30_Witness ==
    /\ r.fault = ""
    /\ r.b = 5
    /\ r.prefix_capacity = 7
    /\ r.k = 3
    /\ r.stack_top = 15
    /\ r.work[14] = 3


(***************************************************************************)
(* The shape of the work stack.                                            *)
(***************************************************************************)
\* The stack holds m frames, of the sizes 1, ..., m from the bottom: the
\* frame of size s ends with its size at position s(s+2) - 1.
StackOfSizes(m) ==
    /\ r.stack_top = m * (m + 2)
    /\ \A s \in 1..m : r.work[s * (s + 2) - 1] = s
\* The reducer is initialized and the run has not failed.
Running == r.initialized = 1 /\ r.fault = ""

\* C31 (shape of the work stack): between the passes of the loop the stack
\* holds exactly one frame of each size 1, ..., m from bottom to top, so
\* stack_top = m(m+2); m is at most the prefix length k, k is at most the
\* target length K, and stack_top is at most the (2c+1)(c+1) integers that
\* are allocated for the prefix capacity c.
C31_StackShape ==
    Running =>
        /\ \E m \in 0..r.k : StackOfSizes(m)
        /\ r.k <= r.target_length
        /\ r.stack_top
             <= (2 * r.prefix_capacity + 1) * (r.prefix_capacity + 1)

\* Frames have been pushed and popped: the prefix has four elements and
\* the stack holds the frames of the sizes 1 and 2, the frame on top with a
\* value of its variable tried.
C31_Witness ==
    /\ Running
    /\ pc = "loop"
    /\ r.k = 4
    /\ r.stack_top = 8
    /\ r.work[7] = 2
    /\ r.stat_out[3] > 0


(***************************************************************************)
(* The current variable of a frame.                                        *)
(***************************************************************************)
\* The vertices that the traversal of level l takes P[l] to.
TraversalImage(l) ==
    {r.traversals[l][j][r.prefix[l]] : j \in Idx(r.trav_sizes[l])}

\* C32 (the current variable is the last one): in every frame of size s on
\* the work stack, and so in every frame that is popped, the search for
\* the current variable ends at position s-1: the variable at position s-1
\* is in the traversal image of the level of the frame, and no variable at
\* a position i < s-1 is.
C32_CurrentIsLast ==
    FramesOnStack =>
        \A f \in StackFrames(r.stack_top) :
            /\ f.current_idx = f.size - 1
            /\ f.vars[f.size - 1] \in TraversalImage(f.lvl)
            /\ \A i \in Idx(f.size - 1) : f.vars[i] \notin TraversalImage(f.lvl)

\* A frame of three variables is about to be popped whose level has a
\* traversal of three or more vertices, and whose current variable is not
\* the first vertex of that traversal.
C32_Witness ==
    /\ FramesOnStack
    /\ pc = "loop"
    /\ TopFrame(r).size = 3
    /\ r.trav_sizes[2] >= 3
    /\ TopFrame(r).current > 0


(***************************************************************************)
(* The seed minima over the lifetime of a frame.                           *)
(***************************************************************************)
\* The frame directly below the frame f.
FrameBelow(f) == TopFrame([r EXCEPT !.stack_top = f.below])
\* The pairs of the candidate that was accepted from the frame g: the value
\* of its current variable is the one tried last.
AcceptedPairs(g) ==
    {<<g.vars[i], TheBase.val[IF i # g.current_idx THEN g.vals[i]
                              ELSE g.current_val - 1]>> : i \in Idx(g.size)}
\* The indicator of orbit_min(H, nu), H being the candidate accepted from
\* the frame g and nu the inverse of the traversal element of its current
\* variable: the images under nu of the least vertices of the orbits.
ParentSeeds(g) ==
    {Inverse(r.traversals[g.lvl][g.current])[u] :
        u \in OrbitMinima(PairGroup(AcceptedPairs(g)))}
\* The levels of the frames on the work stack.
LevelsOnStack == {f.lvl : f \in StackFrames(r.stack_top)}

\* C33 (seed minima under the LIFO discipline): a step overwrites the seed
\* minima of a level only when no frame of that level is on the stack; so
\* as long as a frame of a level l+1 is on the stack, seed_min_{l+1} is the
\* indicator computed by orbit_min(H, nu) from the accepted candidate of
\* the frame directly below it, and that of level 0 is the indicator of
\* the base graph.
C33_SeedLifetime ==
    /\ [][(FramesOnStack /\ r'.fault = "") =>
             \A l \in LevelsOnStack : r'.seed_min[l] = r.seed_min[l]]_vars
    /\ [](FramesOnStack =>
             \A f \in StackFrames(r.stack_top) :
                 Bits(r.seed_min[f.lvl])
                   = IF f.lvl = 0 THEN OrbitMinima(AutG0)
                     ELSE ParentSeeds(FrameBelow(f)))

\* The frame on top has lived through a pass: a value of its variable has
\* been tried.  The frame below it has gone on to a later variable of its
\* level, so the seed minima of the top level were computed under a
\* relabeling that is not the identity, and they are not the least vertices
\* of the orbits of the candidate.
C33_Witness ==
    /\ FramesOnStack
    /\ pc = "loop"
    /\ TopFrame(r).size >= 2
    /\ TopFrame(r).current_val > 0
    /\ FrameBelow(TopFrame(r)).current > 0
    /\ Bits(r.seed_min[TopFrame(r).lvl])
         # OrbitMinima(PairGroup(AcceptedPairs(FrameBelow(TopFrame(r)))))


(***************************************************************************)
(* The internal assertions of the engine.                                  *)
(***************************************************************************)
\* The assertions of reducer_get_prefix_assignment.
EngineAssertions ==
    {"ABORT: no minimum found for base orbit",
     "ABORT: no current variable",
     "ABORT: prefix overrun",
     "ABORT: bad nu",
     "ABORT: bad qlab",
     "ABORT: no minimum found in extending orbit",
     "ABORT: work stack out of balance"}

\* C34 (the internal assertions never fire): in a run on an input that
\* passes parsing and the check of the base graph, none of the assertions
\* of the engine fires: 'no minimum found for base orbit', 'no current
\* variable', 'prefix overrun', 'bad nu', 'bad qlab', 'no minimum found in
\* extending orbit' and 'work stack out of balance'.
C34_NoAssertion == r.fault \notin EngineAssertions

\* A run has ended after every assertion was tested and passed: the first
\* frame was seeded, candidates were tested at three levels, accepted
\* candidates were expanded, and the stack was found empty at the end.
C34_Witness ==
    /\ r.fault = ""
    /\ pc = "nomore"
    /\ r.initialized = 1
    /\ r.stack_top = 0
    /\ r.k >= 3
    /\ r.stat_can[2] > 0
    /\ r.stat_gen[2] > r.stat_can[2]


(***************************************************************************)
(* The selector when every variable vertex is in the prefix.               *)
(***************************************************************************)
\* C35 as stated (the selector always has a vertex to return): whenever the
\* engine calls the selector to extend the prefix, a variable vertex is not
\* yet in the prefix, so the abort 'no eligible orbit' never happens on an
\* input that the parser accepts, a target length K larger than the number
\* v of variable vertices included.
C35_Stated == r.fault # "ABORT: no eligible orbit"


(***************************************************************************)
(* The counters of the levels.                                             *)
(***************************************************************************)
\* The sum of the first m elements of the array a.
RECURSIVE SumTo(_, _)
SumTo(a, m) == IF m <= 0 THEN 0 ELSE a[m - 1] + SumTo(a, m - 1)
\* The call has returned to main, with a record or with 'no more'.
AtReturn == Running /\ pc \in {"returned", "nomore"}
\* 1 when the condition holds and 0 when it does not.
OneIf(c) == IF c THEN 1 ELSE 0
\* A pass of the loop that does not fail.
CleanPass == pc = "loop" /\ r.stack_top > 0 /\ r'.fault = ""

\* C36 (counters): at every return of the call, for every level l < k,
\* stat_out[l] <= stat_can[l] <= stat_gen[l], and the number of records
\* returned is the sum of stat_out over the levels; a pass of the loop adds
\* one to stat_gen of the level of its frame when it tries a value, one to
\* stat_can when the candidate is accepted (returned or expanded), one to
\* stat_out when it is returned, and leaves the counters of every other
\* level as they were.
C36_Counters ==
    /\ [](AtReturn =>
             /\ \A l \in Idx(r.k) :
                   /\ 0 <= r.stat_out[l]
                   /\ r.stat_out[l] <= r.stat_can[l]
                   /\ r.stat_can[l] <= r.stat_gen[l]
             /\ Len(emitted) = SumTo(r.stat_out, r.k))
    /\ [][CleanPass =>
             \A f \in {TopFrame(r)} : \A l \in Idx(r.k) :
                 /\ r'.stat_gen[l] = r.stat_gen[l]
                      + OneIf(l = f.lvl /\ f.current_val < TheBase.r)
                 /\ r'.stat_can[l] = r.stat_can[l]
                      + OneIf(l = f.lvl /\ (\/ pc' = "returned"
                                           \/ r'.stack_top > r.stack_top))
                 /\ r'.stat_out[l] = r.stat_out[l]
                      + OneIf(l = f.lvl /\ pc' = "returned")]_vars

\* A call has returned a record, records of two sizes have been returned,
\* and at one level candidates were rejected and accepted candidates were
\* expanded: the three counters of that level differ.
C36_Witness ==
    /\ AtReturn
    /\ pc = "returned"
    /\ \E i, j \in 1..Len(emitted) : emitted[i].size # emitted[j].size
    /\ \E l \in Idx(r.k) :
          /\ 0 < r.stat_out[l]
          /\ r.stat_out[l] < r.stat_can[l]
          /\ r.stat_can[l] < r.stat_gen[l]


(***************************************************************************)
(* The default threshold.                                                  *)
(***************************************************************************)
\* The first call has seeded the stack: the counters of the levels are set.
Seeded == Running /\ pc \in {"loop", "returned", "nomore"}

\* C37 (threshold 0): with t = 0 every record that is returned has size
\* exactly K: the truncated group order sent with a record is at least 1,
\* no candidate of a size below K is ever returned, and stat_out[l] = 0 for
\* every level l < K-1.
C37_ThresholdZero ==
    r.t = 0 =>
        /\ \A i \in 1..Len(emitted) :
              /\ emitted[i].size = r.target_length
              /\ emitted[i].aut >= 1
        /\ Seeded =>
              \A l \in Idx(r.k) : l < r.target_length - 1 => r.stat_out[l] = 0

\* A run with t = 0 and K = 4 has returned a record; candidates of the
\* sizes 1, 2 and 3 were accepted before it and none of them was returned.
C37_Witness ==
    /\ Seeded
    /\ pc = "returned"
    /\ r.t = 0
    /\ r.target_length = 4
    /\ \A l \in Idx(3) : r.stat_can[l] > 0 /\ r.stat_out[l] = 0
    /\ r.stat_out[3] > 0


(***************************************************************************)
(* A caller that calls reducer_get_prefix_assignment again after it has    *)
(* returned NULL.  main never does; the function is the same.  The caller  *)
(* stops calling once MaxRecords records have been returned.               *)
(***************************************************************************)
MaxRecords == 4
\* A call after the call that returned NULL (lines 1431-1471): the stack is
\* empty, as it was at the first call.
CallAgain ==
    /\ pc = "nomore"
    /\ Len(emitted) < MaxRecords
    /\ r' = IF r.target_length = 0 THEN r ELSE reducer_get_entry(r)
    /\ pc' = IF r'.fault # "" THEN "exit"
             ELSE IF r.target_length = 0 THEN "nomore"
             ELSE "loop"
    /\ UNCHANGED <<labeler, emitted, paths, count, conjbuf, output>>
RecallNext == Next \/ CallAgain
RecallSpec == Init /\ [][RecallNext]_vars

\* C38 as stated (exhaustion is final): the stack is seeded only at the
\* first call; once a call has returned 'no more', a later call returns
\* 'no more' too: it leaves the stack empty, returns no record and does not
\* change the counters.
C38_Stated ==
    [][pc = "nomore" =>
          /\ r'.stack_top = 0
          /\ pc' \in {"nomore", "done"}
          /\ emitted' = emitted
          /\ r'.stat_gen = r.stat_gen
          /\ r'.stat_can = r.stat_can
          /\ r'.stat_out = r.stat_out]_vars


(***************************************************************************)
(* Memory discipline.                                                      *)
(***************************************************************************)
\* The blocks of a candidate are gone between the passes and when a call
\* has returned, and one prefix graph is held exactly when the reducer
\* holds its last prefix graph.
CandidateBlocksFreed ==
    /\ r.heap["nu"] = 0
    /\ r.heap["H"] = 0
    /\ r.heap["prefix_g"] = IF r.last_prefix_g # NOGRAPH THEN 1 ELSE 0

\* C39 (memory discipline): while the program runs without a fatal error,
\* the inverse permutation nu and the extended graph H of a candidate are
\* freed before the next pass or the return of the call, every prefix graph
\* given to reducer_expand_prefix is freed there, so that until the reducer
\* is released at most the last prefix graph is held, and when main has
\* called reducer_free and arg_free no block is left: the balance check at
\* the exit does not abort.
C39_MemoryDiscipline ==
    /\ r.fault # "ABORT: nonzero malloc balance"
    /\ (r.fault = "" /\ pc # "done" => CandidateBlocksFreed)
    /\ (pc = "done" => \A name \in BlockNames : r.heap[name] = 0)
\* A run with a CNF has ended: candidates were rejected, reported and
\* expanded, and the prefix was extended past the prefix that was given.
C39_Witness ==
    /\ pc = "done"
    /\ Bases[r.b].have_cnf = 1
    /\ Len(emitted) >= 2
    /\ r.k >= 2
    /\ r.prefix_capacity > 1
    /\ \E l \in Idx(r.k) : r.stat_can[l] < r.stat_gen[l]
    /\ \E l \in Idx(r.k) : r.stat_out[l] < r.stat_can[l]


(***************************************************************************)
(* reduce.c, reducer_expand_prefix at level 0: the scan that groups the    *)
(* vertices into orbit cells (lines 1162-1181), one test of the loop       *)
(* condition at a time.  p is the array of the orbit cells, of length n,   *)
(* c the array of the orbits and q marks the variable vertices.  r holds   *)
(* the base b, the positions s and u of the scan, the positions of p that  *)
(* were read, and past, the integer that the memory holds behind the last  *)
(* element of p.                                                           *)
(***************************************************************************)
\* What the memory behind the array may hold: an index of c, a negative
\* number, the size field of the next block.
PastCells == {0, -1, 33}
ScanG(b) == graph_getcan(b, Bases[b].base)
ScanMarks(b) ==
    Table([u \in Idx(Bases[b].n) |-> IF u \in ARange(Bases[b].var) THEN 1 ELSE 0])
\* p[u] as the program reads it: behind the array it reads past.
CellAt(p, u, n, past) == IF u < n THEN p[u] ELSE past

ScanInit ==
    /\ \E b \in DOMAIN Bases : \E past \in PastCells :
          r = [b |-> b, past |-> past, s |-> 0, u |-> 0, reads |-> {},
               fault |-> ""]
    /\ labeler = "least"
    /\ pc = "outer"
    /\ emitted = << >>
    /\ paths = << >>
    /\ count = 0
    /\ conjbuf = << >>
    /\ output = << >>
\* The outer loop starts a cell at s (lines 1169-1170).
ScanCell ==
    /\ pc = "outer"
    /\ r.s < Bases[r.b].n
    /\ r' = [r EXCEPT !.u = r.s + 1]
    /\ pc' = "inner"
    /\ UNCHANGED <<labeler, emitted, paths, count, conjbuf, output>>
\* One test of the condition c[p[s]] == c[p[u]] && u < n (line 1171): the
\* comparison is made first.  With p[u] not an index of c the read of c is
\* outside of c as well: it gives any value, or the program is killed.
ScanTest ==
    /\ pc = "inner"
    /\ \E n \in {Bases[r.b].n}, p \in {graph_orbit_cells(ScanG(r.b))},
          c \in {graph_orbits(ScanG(r.b))} :
          \E pu \in {CellAt(p, r.u, n, r.past)} :
             \E same \in IF pu \in Idx(n) THEN {c[p[r.s]] = c[pu]} ELSE BOOLEAN :
                \E killed \in IF pu \in Idx(n) THEN {FALSE} ELSE BOOLEAN :
                   /\ r' = [r EXCEPT
                              !.reads = @ \cup {r.s, r.u},
                              !.u = IF ~killed /\ same /\ r.u < n
                                    THEN r.u + 1 ELSE @,
                              !.fault = IF killed THEN "SIGSEGV" ELSE @]
                   /\ pc' = IF killed THEN "exit"
                            ELSE IF same /\ r.u < n THEN "inner"
                            ELSE "cells"
    /\ UNCHANGED <<labeler, emitted, paths, count, conjbuf, output>>
\* The cell s..u-1 is compared with the variable list and the scan goes on
\* behind it (lines 1173-1179).
ScanCheck ==
    /\ pc = "cells"
    /\ \E p \in {graph_orbit_cells(ScanG(r.b))}, q \in {ScanMarks(r.b)} :
          IF \E j \in (r.s + 1)..(r.u - 1) : q[p[j]] # q[p[r.s]]
          THEN /\ r' = Fault(r, "ERROR: variable list is not a union of orbits of base graph")
               /\ pc' = "exit"
          ELSE /\ r' = [r EXCEPT !.s = r.u]
               /\ pc' = "outer"
    /\ UNCHANGED <<labeler, emitted, paths, count, conjbuf, output>>
\* The scan has passed the last cell (line 1181).
ScanEnd ==
    /\ pc = "outer"
    /\ r.s >= Bases[r.b].n
    /\ pc' = "checked"
    /\ UNCHANGED <<r, labeler, emitted, paths, count, conjbuf, output>>
ScanNext == ScanCell \/ ScanTest \/ ScanCheck \/ ScanEnd
ScanSpec == ScanInit /\ [][ScanNext]_vars

\* C40 as stated (array bounds in the level-0 validation): the orbit-cell
\* array, of length n, is read at positions 0..n-1 only, also when the scan
\* reaches the last cell.
C40_Stated == r.reads \subseteq Idx(Bases[r.b].n)
=============================================================================
